---------------------------- MODULE Spec2Model ----------------------------
(***************************************************************************)
(* A model of the PageRank compute worker (src/src/workers/pagerank.worker.ts), *)
(* the WASM module loader it uses (utils/wasmLoader, src/unnamed/part_002)   *)
(* the managed kernels (src/src/algorithms/randomWalk.ts) with the graph     *)
(* utilities and the error metrics they use (src/unnamed/part_003, part_005),*)
(* and the parameter and results panels of the page (src/unnamed/part_000).  *)
(*                                                                           *)
(* The worker is one JavaScript event loop: a message event or the settling  *)
(* of the module load is a macrotask, and the continuation of an `await` is  *)
(* a job of the microtask queue, which is drained before the next macrotask. *)
(* Everything a handler does between two awaits is one action.               *)
(***************************************************************************)
EXTENDS Integers, Sequences, FiniteSets, TLC

(***************************************************************************)
(* Bounds of the model.                                                      *)
(***************************************************************************)
\* COMPUTE messages the caller sends in one behaviour.
MaxTasks == 2
\* Largest iteration count of a task of the wide-input specification.
MaxIterations == 31
\* Largest node count of a ring graph of the wide-input specification.
MaxNodes == 21
\* Largest node count of a graph given to a kernel on its own.
MaxKernelNodes == 5
\* Largest iteration count given to a power-iteration kernel on its own, the
\* tests' count apart.
MaxSweeps == 25
\* Kernel calls completed before the one observed.
MaxEarlier == 2
\* Largest node count of a graph given to a random-walk kernel on its own.
MaxWalkNodes == 3
\* Largest walksPerNode given to a random-walk kernel on its own.
MaxWalks == 2
\* Moves after which a walk draws a stop.
MaxWalkSteps == 2
\* Blocks of walks per node of a long random walk.
MaxBlocks == 2

\* Length of the vectors the error metrics are called with
MaxVector == 2

\* The panel: computations started and datasets or files chosen.
MaxComputes == 3

MaxLoads == 2

(***************************************************************************)
(* Algorithm identifiers (src/src/types/algorithm.ts, AlgorithmType) and one *)
(* identifier outside the type, which the dispatch rejects.                  *)
(***************************************************************************)
WasmAlgorithms == {"power-iteration-wasm", "random-walk-wasm"}

JsAlgorithms == {"power-iteration-js", "random-walk-js"}

AlgorithmType == WasmAlgorithms \cup JsAlgorithms

UnknownAlgorithm == "pagerank-gpu"

\* A second identifier outside the type.
OtherUnknownAlgorithm == "random-walk"

UnknownAlgorithms == {UnknownAlgorithm, OtherUnknownAlgorithm}

\* Line 233: `Unknown algorithm: ${algorithm}`, for the identifiers of the model.
UnknownAlgorithmError(algorithm) ==
  CASE algorithm = UnknownAlgorithm -> "Unknown algorithm: pagerank-gpu"
    [] algorithm = OtherUnknownAlgorithm -> "Unknown algorithm: random-walk"
    [] OTHER -> "Unknown algorithm"

(***************************************************************************)
(* Graphs (src/unnamed/part_005, interface Graph): a node count and a        *)
(* sequence of edges <<source, target>>.                                     *)
(***************************************************************************)
Ring(n) == [nodes |-> n, edges |-> [i \in 1..n |-> <<i - 1, i % n>>]]

\* An edge whose source is no node of the graph.
BadSource == [nodes |-> 2, edges |-> << <<2, 0>> >>]

\* An edge 0 -> 2 whose target is no node of the graph; node 1 is dangling.
BadTarget == [nodes |-> 2, edges |-> << <<0, 2>> >>]

InRange(g, v) == v \in 0..(g.nodes - 1)

(***************************************************************************)
(* Progress values are the exact quotient num/den of the code's              *)
(* ((k) / total) * 100, kept as a fraction.                                  *)
(***************************************************************************)
Percent(done, total) == [num |-> done * 100, den |-> total]

\* A sweep counted as ten percent, whatever the iteration count.
PowerIterationProgressPerSweep(iter, iterations) == Percent(iter + 1, 10)

\* powerIterationJS, lines 208-236: the callback fires after sweep iter
\* (0-based) when (iter + 1) % 10 = 0, with ((iter + 1) / iterations) * 100.
\* The report placed before the sweep is counted.
PowerIterationReportsBefore(iter) == iter % 10 = 0

PowerIterationReportsAfter(iter) == (iter + 1) % 10 = 0

PowerIterationProgressValue(iter, iterations) == Percent(iter + 1, iterations)

RECURSIVE PowerIterationProgressFrom(_, _)
PowerIterationProgressFrom(iter, iterations) ==
  IF iter >= iterations THEN <<>>
  ELSE (IF PowerIterationReportsAfter(iter)
          THEN <<PowerIterationProgressValue(iter, iterations)>>
          ELSE <<>>)
       \o PowerIterationProgressFrom(iter + 1, iterations)

PowerIterationProgress(iterations) == PowerIterationProgressFrom(0, iterations)

\* The block of the compiled kernel (pagerank.cpp, line 214) in its place.
FloorTenthPlusOne(n) == n \div 10 + 1

\* Math.ceil(n / 10) for an integer n >= 0.
CeilTenth(n) == (n + 9) \div 10

\* randomWalkJS, lines 93-97: the callback fires after start node s when
\* (s + 1) % Math.ceil(n / 10) = 0, with ((s + 1) / n) * 100.
RandomWalkReportsAfter(startNode, n) == (startNode + 1) % CeilTenth(n) = 0

RandomWalkProgressValue(startNode, n) == Percent(startNode + 1, n)

\* The progress values of the start nodes from..(upto - 1).
RECURSIVE RandomWalkProgressFrom(_, _, _)
RandomWalkProgressFrom(startNode, upto, n) ==
  IF startNode >= upto THEN <<>>
  ELSE (IF RandomWalkReportsAfter(startNode, n)
          THEN <<RandomWalkProgressValue(startNode, n)>>
          ELSE <<>>)
       \o RandomWalkProgressFrom(startNode + 1, upto, n)

RandomWalkProgress(n) == RandomWalkProgressFrom(0, n, n)

(***************************************************************************)
(* The managed kernels as the worker sees them: the progress values they     *)
(* report and whether they return or throw.                                  *)
(***************************************************************************)
\* powerIterationJS: typed-array reads and writes outside the arrays do not
\* throw, so the kernel returns for every graph of the model.
PowerIterationRuns(g, iterations) ==
  {[kernel |-> "powerIterationJS",
    progress |-> PowerIterationProgress(iterations), exit |-> "return",
    error |-> "none"]}

\* randomWalkJS, line 52: adjacencyList[edge.source].push throws a TypeError
\* when the source is no node.
ThrowsBuildingAdjacency(g) ==
  \E i \in 1..Len(g.edges) : ~InRange(g, g.edges[i][1])

\* Nodes reached from s by following k or fewer edges.
RECURSIVE Reach(_, _, _)
Reach(g, from, k) ==
  IF k = 0 THEN from
  ELSE Reach(g, from \cup {g.edges[i][2] : i \in
                 {j \in 1..Len(g.edges) : g.edges[j][1] \in from}}, k - 1)

\* randomWalkJS, lines 73-77: after a move to a target that is no node, a further
\* continue-draw reads adjacencyList[current].length of undefined and throws.
MayThrowWalkingFrom(g, s) ==
  \E v \in Reach(g, {s}, Len(g.edges)) : ~InRange(g, v)

RandomWalkRuns(g) ==
  IF ThrowsBuildingAdjacency(g)
    THEN {[kernel |-> "randomWalkJS", progress |-> <<>>, exit |-> "throw",
           error |-> "TypeError"]}
    ELSE {[kernel |-> "randomWalkJS", progress |-> RandomWalkProgress(g.nodes),
           exit |-> "return", error |-> "none"]}
         \cup {[kernel |-> "randomWalkJS",
                progress |-> RandomWalkProgressFrom(0, s, g.nodes),
                exit |-> "throw", error |-> "TypeError"] :
                 s \in {v \in 0..(g.nodes - 1) : MayThrowWalkingFrom(g, v)}}

(***************************************************************************)
(* COMPUTE payloads (ParameterPanel.handleCompute builds the parameters:     *)
(* {alpha, iterations} for a power-iteration algorithm, {alpha, walksPerNode}*)
(* otherwise).  alpha is kept as a fraction.                                 *)
(***************************************************************************)
Alpha == [num |-> 85, den |-> 100]

IsPowerIteration(algorithm) ==
  algorithm \in {"power-iteration-wasm", "power-iteration-js"}

\* Lines 167-169 of ParameterPanel: the parameters are passed on as entered.
ParamsWith(algorithm, alpha, count) ==
  IF IsPowerIteration(algorithm)
    THEN [alpha |-> alpha, iterations |-> count]
    ELSE [alpha |-> alpha, walksPerNode |-> count]

ParamsFor(algorithm, count) == ParamsWith(algorithm, Alpha, count)

Payload(algorithm, g, count) ==
  [algorithm |-> algorithm, graph |-> g, params |-> ParamsFor(algorithm, count)]

PayloadWith(algorithm, g, alpha, count) ==
  [algorithm |-> algorithm, graph |-> g,
   params |-> ParamsWith(algorithm, alpha, count)]

\* A random-walk task whose parameters carry a seed next to alpha and
\* walksPerNode (the payload's params are passed on as given).
PayloadSeeded(algorithm, g, count, seed) ==
  [algorithm |-> algorithm, graph |-> g,
   params |-> [alpha |-> Alpha, walksPerNode |-> count, seed |-> seed]]

\* Values of alpha outside (0, 1) that the number inputs let through.  With
\* alpha >= 1 a random walk never draws a stop, so a walk on a graph without
\* dangling nodes does not end; such runs are left out (the kernel neither
\* returns nor throws).
AlphaZero == [num |-> 0, den |-> 100]

AlphaAboveOne == [num |-> 150, den |-> 100]

\* The inputs of the protocol specification: every identifier on a well-formed
\* graph, and the managed random walk on a malformed one.
NarrowPayloads ==
  {Payload(a, Ring(3), 20) : a \in AlgorithmType \cup {UnknownAlgorithm}}
  \cup {Payload("random-walk-js", BadTarget, 20)}

\* The inputs of the wide-input specification: every iteration count and
\* every node count up to the bounds.
WidePayloads ==
  {Payload(a, Ring(3), c) : a \in {"power-iteration-js", "power-iteration-wasm"},
                            c \in 0..MaxIterations}
  \cup {Payload(a, g, 1) : a \in {"random-walk-js", "random-walk-wasm",
                                  UnknownAlgorithm},
                           g \in {Ring(n) : n \in 0..MaxNodes}
                                 \cup {BadSource, BadTarget}}
  \cup {PayloadWith(a, Ring(n), alpha, 20) :
          a \in {"power-iteration-js", "power-iteration-wasm"},
          n \in {0, 3}, alpha \in {Alpha, AlphaZero, AlphaAboveOne}}
  \cup {PayloadWith(a, Ring(3), AlphaZero, c) :
          a \in {"random-walk-js", "random-walk-wasm"}, c \in {0, 1}}
  \cup {Payload(OtherUnknownAlgorithm, Ring(3), 1)}
  \cup {PayloadSeeded(a, Ring(3), 1, 7) :
          a \in {"random-walk-js", "random-walk-wasm"}}

(***************************************************************************)
(* Messages between the caller and the worker (types/worker: WorkerMessage, *)
(* WorkerResult).                                                            *)
(***************************************************************************)
NoProgress == [num |-> 0, den |-> 0]

ProgressMsg(taskId, progress) ==
  [type |-> "PROGRESS", taskId |-> taskId, progress |-> progress,
   error |-> "none", time |-> 0]

\* Lines 248-255: the RESULT carries executionTime.
ResultMsg(taskId, time) ==
  [type |-> "RESULT", taskId |-> taskId, progress |-> NoProgress,
   error |-> "none", time |-> time]

\* An ERROR that does not carry the cause.
ErrorMsgWithoutCause(taskId, error) ==
  [type |-> "ERROR", taskId |-> taskId, progress |-> NoProgress,
   error |-> "ComputationFailed", time |-> 0]

ErrorMsg(taskId, error) ==
  [type |-> "ERROR", taskId |-> taskId, progress |-> NoProgress,
   error |-> error, time |-> 0]

\* executePowerIterationJS / executeRandomWalkJS: onProgress posts one
\* PROGRESS message per value the kernel reports.
ProgressMsgs(taskId, values) ==
  [i \in 1..Len(values) |-> ProgressMsg(taskId, values[i])]

\* A catch block that posts nothing.
TerminalMsgsSwallowingThrow(taskId, exit, error, time) ==
  IF exit = "return" THEN <<ResultMsg(taskId, time)>> ELSE <<>>

\* handleCompute, lines 236-270: a kernel that returned is answered with one
\* RESULT, a throw anywhere in the try block with one ERROR.
TerminalMsgs(taskId, exit, error, time) ==
  IF exit = "return" THEN <<ResultMsg(taskId, time)>>
                     ELSE <<ErrorMsg(taskId, error)>>

(***************************************************************************)
(* The foreign heap.  allocs[p] is the buffer _malloc returned as pointer p: *)
(* who allocated it, for which argument, its size in bytes, how many times   *)
(* _free was called on it, and whether it was read or written after a free.  *)
(* Pointer 0 is the null pointer.                                            *)
(***************************************************************************)
Live(A, p) == A[p].frees = 0

LivePointers(A) == {p \in 1..Len(A) : Live(A, p)}

\* What a bridge call may run into.  A failing _malloc either returns the null
\* pointer or throws, depending on how the module was built; slot names the
\* allocation that fails.
BridgeFaults ==
  {[stage |-> s, slot |-> 0] : s \in {"none", "write", "kernel", "read"}}
  \cup {[stage |-> s, slot |-> k] : s \in {"malloc-null", "malloc-throw"},
                                    k \in 1..3}

\* wasmModule._malloc(size) as the slot-th allocation of task owner's call.
Malloc(A, owner, slot, size, fault) ==
  IF fault.slot = slot
    THEN [allocs |-> A, ptr |-> 0, threw |-> fault.stage = "malloc-throw"]
    ELSE [allocs |-> Append(A, [owner |-> owner, slot |-> slot, size |-> size,
                                frees |-> 0, stale |-> FALSE]),
          ptr |-> Len(A) + 1, threw |-> FALSE]

\* wasmModule._free(ptr); free(NULL) does nothing.
Free(A, p) == IF p = 0 THEN A ELSE [A EXCEPT ![p].frees = @ + 1]

\* setValue / getValue on the buffer at p, or the kernel using it.
Touch(A, p) ==
  IF p = 0 \/ Live(A, p) THEN A ELSE [A EXCEPT ![p].stale = TRUE]

TouchAll(A, ptrs) == Touch(Touch(Touch(A, ptrs[1]), ptrs[2]), ptrs[3])

\* The finally block: the three _free calls.
FreeBuffers(A, ptrs) == Free(Free(Free(A, ptrs[1]), ptrs[2]), ptrs[3])

\* The frees at the end of the try block instead of in a finally.
FreeOnReturnOnly(A, ptrs, exit) ==
  IF exit = "return" THEN FreeBuffers(A, ptrs) ELSE A

\* The buffers are released when the try block is left, by return or by throw.
FinallyFree(A, ptrs, exit) == FreeBuffers(A, ptrs)

\* A 4-byte write or an 8-byte read at a byte offset from a pointer.
Access(ptr, offset, bytes) == [ptr |-> ptr, offset |-> offset, bytes |-> bytes]

\* Lines 53-56: setValue(edgeSourcesPtr + i * 4, ...) and
\* setValue(edgeTargetsPtr + i * 4, ...) for every edge i.
EdgeWrites(g, ptrs) ==
  {Access(ptrs[k], (i - 1) * 4, 4) : k \in 1..2, i \in 1..Len(g.edges)}

\* Lines 70-73: getValue(resultPtr + i * 8, 'double') for every node i.
ResultReads(g, ptrs) == {Access(ptrs[3], i * 8, 8) : i \in 0..(g.nodes - 1)}

\* What a bridge call has done when it is left: writes and reads are the
\* accesses it made through setValue and getValue, resultLength the length of
\* the array it returned (0 when it threw).
BridgeExit(A, ptrs, entered, kernel, exit, error, seen, writes, reads, n) ==
  [allocs |-> A, ptrs |-> ptrs, tryEntered |-> entered,
   kernelInvoked |-> kernel, exit |-> exit, error |-> error,
   liveAtEntry |-> seen, writes |-> writes, reads |-> reads,
   resultLength |-> n]

\* The try block of executePowerIterationWASM / executeRandomWalkWASM: write the
\* edges, call the compiled kernel, read the result back.
BridgeTry(A, g, ptrs, fault, seen) ==
  LET written == TouchAll(A, <<ptrs[1], ptrs[2], 0>>)
      called  == TouchAll(written, ptrs)
      read    == TouchAll(called, <<0, 0, ptrs[3]>>)
      writes  == EdgeWrites(g, ptrs)
      reads   == ResultReads(g, ptrs)
  IN CASE fault.stage = "write" ->
            BridgeExit(FinallyFree(written, ptrs, "throw"), ptrs, TRUE, FALSE,
                       "throw", "WriteError", seen, {}, {}, 0)
       [] fault.stage = "kernel" ->
            BridgeExit(FinallyFree(called, ptrs, "throw"), ptrs, TRUE, TRUE,
                       "throw", "KernelError", seen, writes, {}, 0)
       [] fault.stage = "read" ->
            BridgeExit(FinallyFree(read, ptrs, "throw"), ptrs, TRUE, TRUE,
                       "throw", "ReadError", seen, writes, {}, 0)
       [] OTHER ->
            BridgeExit(FinallyFree(read, ptrs, "return"), ptrs, TRUE, TRUE,
                       "return", "none", seen, writes, reads, g.nodes)

\* executePowerIterationWASM / executeRandomWalkWASM from the first _malloc on
\* (lines 46-80, 101-139): the three allocations come before the try block, so
\* a _malloc that throws leaves the function without reaching the finally.
BridgeCall(A, owner, g, fault) ==
  LET seen == {A[p].owner : p \in LivePointers(A)}
      a1 == Malloc(A, owner, 1, Len(g.edges) * 4, fault)
      a2 == Malloc(a1.allocs, owner, 2, Len(g.edges) * 4, fault)
      a3 == Malloc(a2.allocs, owner, 3, g.nodes * 8, fault)
  IN IF a1.threw
       THEN BridgeExit(a1.allocs, <<0, 0, 0>>, FALSE, FALSE, "throw",
                       "OutOfMemory", seen, {}, {}, 0)
     ELSE IF a2.threw
       THEN BridgeExit(a2.allocs, <<a1.ptr, 0, 0>>, FALSE, FALSE, "throw",
                       "OutOfMemory", seen, {}, {}, 0)
     ELSE IF a3.threw
       THEN BridgeExit(a3.allocs, <<a1.ptr, a2.ptr, 0>>, FALSE, FALSE, "throw",
                       "OutOfMemory", seen, {}, {}, 0)
     ELSE BridgeTry(a3.allocs, g, <<a1.ptr, a2.ptr, a3.ptr>>, fault, seen)

(***************************************************************************)
(* loadWASM (src/unnamed/part_002, lines 159-244).  loaderModule is the      *)
(* loader's wasmModule, loadingPromise the state of its loadingPromise.      *)
(***************************************************************************)
\* loadWASM without the check of loadingPromise (lines 165-168).
LoadWASMIgnoringInFlight(module, promise) ==
  IF module THEN "cached" ELSE "start"

\* What a call of loadWASM does: return the cached module, return the promise
\* it holds, or start a load.
LoadWASM(module, promise) ==
  IF module THEN "cached"
  ELSE IF promise # "null" THEN "share"
  ELSE "start"

\* The rejected promise left in loadingPromise.
PromiseKeptAfterFailure == "rejected"

\* Line 238: the catch block of the load clears loadingPromise.
PromiseAfterFailure == "null"

\* What may go wrong in a load (lines 190, 202; a rejected createModule).
LoadErrors == {"FetchFailed", "LoaderNotAFunction"}

(***************************************************************************)
(* The arithmetic of the kernels.  A float64 score is kept as a count of     *)
(* 1e-8 units, and every operation rounds its result to the nearest unit, as *)
(* every float64 operation rounds to the nearest representable number.       *)
(***************************************************************************)
\* 1.0 in units of 1e-8.
One == 100000000

\* The 1e-6 of `Math.abs(sum - 1.0) > 1e-6`.
Tolerance == 100

Abs(x) == IF x < 0 THEN 0 - x ELSE x

\* a / b for an integer b > 0, rounded to the nearest unit.
Round(a, b) == (a + b \div 2) \div b

\* alpha as a score.
ScaledAlpha(alpha) == Round(alpha.num * One, alpha.den)

\* alpha * x.
Mul(alpha, x) == Round(alpha.num * x, alpha.den)

\* Long division: eight more decimal digits of r / s after the quotient q, the
\* last one rounded.
RECURSIVE Digits(_, _, _, _)
Digits(q, r, s, k) ==
  IF k = 0 THEN q + (IF 2 * r >= s THEN 1 ELSE 0)
  ELSE Digits(q * 10 + (r * 10) \div s, (r * 10) % s, s, k - 1)

\* x / s as a score, for x and s in the same unit and s > 0.
Quotient(x, s) == Digits(x \div s, x % s, s, 8)

(***************************************************************************)
(* Power iteration (powerIterationJS, src/src/algorithms/randomWalk.ts lines *)
(* 163-255; the compiled powerIteration, src/unnamed/part_005 lines 69-146,  *)
(* is the same computation).  Vectors are functions on the nodes 0..n-1.     *)
(***************************************************************************)
Nodes(g) == 0..(g.nodes - 1)

\* An edge whose target its source already lists is left out.
AddEdgeOnce(d, e) ==
  IF \E j \in 1..Len(d.adjacencyList[e[1]]) : d.adjacencyList[e[1]][j] = e[2]
    THEN d
    ELSE [outDegree |-> [d.outDegree EXCEPT ![e[1]] = @ + 1],
          adjacencyList |-> [d.adjacencyList EXCEPT ![e[1]] = Append(@, e[2])]]

\* What one edge adds to the derived data: outDegree[edge.source]++ (line 183;
\* pagerank.cpp line 51) and adjacencyList[edge.source].push(edge.target)
\* (line 52; pagerank.cpp line 52).
AddEdge(d, e) ==
  [outDegree |-> [d.outDegree EXCEPT ![e[1]] = @ + 1],
   adjacencyList |-> [d.adjacencyList EXCEPT ![e[1]] = Append(@, e[2])]]

\* The derived data after the first k edges: the arrays start at 0 and empty
\* (lines 50, 181) and the loops take the edges in edge-list order.
RECURSIVE DerivedAfter(_, _)
DerivedAfter(g, k) ==
  IF k = 0 THEN [outDegree |-> [v \in Nodes(g) |-> 0],
                 adjacencyList |-> [v \in Nodes(g) |-> <<>>]]
           ELSE AddEdge(DerivedAfter(g, k - 1), g.edges[k])

Derived(g) == DerivedAfter(g, Len(g.edges))

\* Lines 181-184.
OutDegree(g) == Derived(g).outDegree

\* Lines 50-53.
AdjacencyList(g) == Derived(g).adjacencyList

\* Lines 188-193.
DanglingNodes(g) ==
  LET outDegree == OutDegree(g) IN {v \in Nodes(g) : outDegree[v] = 0}

\* The sum of the entries of vec at the nodes of S, taken in increasing order.
RECURSIVE SumOver(_, _)
SumOver(vec, S) ==
  IF S = {} THEN 0
  ELSE LET v == CHOOSE x \in S : \A y \in S : x <= y
       IN vec[v] + SumOver(vec, S \ {v})

\* Line 202: pr.fill(1.0 / n).
InitialVector(g) == [v \in Nodes(g) |-> Round(One, g.nodes)]

\* The loop over the edges stopping one edge early.
RECURSIVE AddEdgesSkippingLast(_, _, _, _, _)
AddEdgesSkippingLast(g, alpha, pr, newPr, i) ==
  IF i > Len(g.edges) - 1 THEN newPr
  ELSE LET source == g.edges[i][1]
           target == g.edges[i][2]
           contribution == Round(Mul(alpha, pr[source]), OutDegree(g)[source])
       IN AddEdgesSkippingLast(g, alpha, pr,
                               [newPr EXCEPT ![target] = @ + contribution],
                               i + 1)

\* The contribution of an edge credited to its source.
RECURSIVE AddEdgesCreditingSource(_, _, _, _, _)
AddEdgesCreditingSource(g, alpha, pr, newPr, i) ==
  IF i > Len(g.edges) THEN newPr
  ELSE LET source == g.edges[i][1]
           contribution == Round(Mul(alpha, pr[source]), OutDegree(g)[source])
       IN AddEdgesCreditingSource(g, alpha, pr,
                                  [newPr EXCEPT ![source] = @ + contribution],
                                  i + 1)

\* Lines 223-226: the contribution of the edges from the i-th on.
RECURSIVE AddEdges(_, _, _, _, _)
AddEdges(g, alpha, pr, newPr, i) ==
  IF i > Len(g.edges) THEN newPr
  ELSE LET source == g.edges[i][1]
           target == g.edges[i][2]
           contribution == Round(Mul(alpha, pr[source]), OutDegree(g)[source])
       IN AddEdges(g, alpha, pr, [newPr EXCEPT ![target] = @ + contribution],
                   i + 1)

\* The loop over the nodes starting at node 1.
FilledSkippingFirst(g, teleportation, danglingContribution) ==
  [v \in Nodes(g) |->
     teleportation + (IF v = 0 THEN 0 ELSE danglingContribution)]

\* Lines 210, 218-220: newPr.fill(teleportation), then the share of the
\* dangling nodes added to every entry.
Filled(g, teleportation, danglingContribution) ==
  [v \in Nodes(g) |-> teleportation + danglingContribution]

\* The share of the dangling nodes left out of the sweep.
DanglingSumForgotten(pr, danglingNodes) == 0

\* Lines 213-216: the scores of the dangling nodes added up.
DanglingSum(pr, danglingNodes) == SumOver(pr, danglingNodes)

\* The teleportation term not shared among the nodes.
SweepWithWholeTeleport(g, alpha, pr, danglingNodes) ==
  LET teleportation == One - ScaledAlpha(alpha)
      danglingSum == DanglingSum(pr, danglingNodes)
      danglingContribution == Round(Mul(alpha, danglingSum), g.nodes)
  IN AddEdges(g, alpha, pr, Filled(g, teleportation, danglingContribution), 1)

\* Lines 209-229: one sweep, from pr to the vector that replaces it, with the
\* dangling nodes the call recorded before the loop.
SweepWith(g, alpha, pr, danglingNodes) ==
  LET teleportation == Round(One - ScaledAlpha(alpha), g.nodes)
      danglingSum == DanglingSum(pr, danglingNodes)
      danglingContribution == Round(Mul(alpha, danglingSum), g.nodes)
  IN AddEdges(g, alpha, pr, Filled(g, teleportation, danglingContribution), 1)

Sweep(g, alpha, pr) == SweepWith(g, alpha, pr, DanglingNodes(g))

\* The dangling nodes as a call would record them if the loop of lines 189-193
\* passed over node k.
DanglingNodesWithout(g, k) == DanglingNodes(g) \ {k}

\* The vector divided by its largest entry.
NormalizedToMax(g, pr) ==
  LET max == CHOOSE x \in {pr[v] : v \in Nodes(g)} :
               \A v \in Nodes(g) : pr[v] <= x
  IN [v \in Nodes(g) |-> Quotient(pr[v], max)]

\* Lines 239-245 (and 115-121 of randomWalkJS): the vector is divided by its sum
\* when the sum is further than 1e-6 from 1.
Normalized(g, pr) ==
  LET sum == SumOver(pr, Nodes(g))
  IN IF Abs(sum - One) > Tolerance
       THEN [v \in Nodes(g) |-> Quotient(pr[v], sum)]
       ELSE pr

(***************************************************************************)
(* The compiled powerIteration (pagerank.cpp, src/unnamed/part_005 lines     *)
(* 69-146), translated on its own.                                           *)
(***************************************************************************)
\* Lines 78-82: the Graph built edge by edge with addEdge.
NativeGraph(g) == Derived(g)

\* No node found dangling.
NativeDanglingNodesNone(g) == {}

\* Lines 85-90.
NativeDanglingNodes(g) ==
  LET graph == NativeGraph(g) IN {i \in Nodes(g) : graph.outDegree[i] = 0}

\* Lines 114-119.
RECURSIVE NativeAddEdges(_, _, _, _, _, _)
NativeAddEdges(g, graph, alpha, pr, newPr, i) ==
  IF i > Len(g.edges) THEN newPr
  ELSE LET source == g.edges[i][1]
           target == g.edges[i][2]
           contribution ==
             Round(Mul(alpha, pr[source]), graph.outDegree[source])
       IN NativeAddEdges(g, graph, alpha, pr,
                         [newPr EXCEPT ![target] = @ + contribution], i + 1)

\* Lines 96-122: one pass of the loop; pr after the swap.
NativeSweep(g, alpha, pr) ==
  LET teleportation == Round(One - ScaledAlpha(alpha), g.nodes)
      danglingSum == SumOver(pr, NativeDanglingNodes(g))
      danglingContribution == Round(Mul(alpha, danglingSum), g.nodes)
      newPr == [i \in Nodes(g) |-> teleportation + danglingContribution]
  IN NativeAddEdges(g, NativeGraph(g), alpha, pr, newPr, 1)

\* Lines 131-145.
NativeNormalized(g, pr) ==
  LET sum == SumOver(pr, Nodes(g))
  IN IF Abs(sum - One) > Tolerance
       THEN [i \in Nodes(g) |-> Quotient(pr[i], sum)]
       ELSE pr

\* The two kernels, by name.
OtherKernel(fn) ==
  IF fn = "_powerIteration" THEN "powerIterationJS" ELSE "_powerIteration"

KernelDanglingNodes(fn, g) ==
  IF fn = "_powerIteration" THEN NativeDanglingNodes(g) ELSE DanglingNodes(g)

KernelSweep(fn, g, alpha, pr) ==
  IF fn = "_powerIteration" THEN NativeSweep(g, alpha, pr)
                            ELSE Sweep(g, alpha, pr)

KernelNormalized(fn, g, pr) ==
  IF fn = "_powerIteration" THEN NativeNormalized(g, pr) ELSE Normalized(g, pr)

\* The other kernel entered with the arguments i: lines 92-93 and 200-203
\* both fill pr with 1.0 / n.
TwinEntered(i) ==
  [danglingNodes |-> KernelDanglingNodes(OtherKernel(i.fn), i.graph),
   pr |-> InitialVector(i.graph), result |-> <<>>]

(***************************************************************************)
(* The Graph object a kernel is handed (types/graph, src/unnamed/part_005    *)
(* lines 265-277) and the data the kernel derives from it.                   *)
(***************************************************************************)
GraphObject(g, isDirected) ==
  [nodes |-> g.nodes, edges |-> g.edges, isDirected |-> isDirected]

\* An edge list that holds every edge in both directions is taken to come
\* from an undirected dataset.
IsSymmetric(g) ==
  /\ g.edges # <<>>
  /\ \A i \in 1..Len(g.edges) :
       \E j \in 1..Len(g.edges) :
         g.edges[j] = <<g.edges[i][2], g.edges[i][1]>>

\* The derived data kept on the Graph object, in its optional fields.
GraphCachingDerived(graph, d) ==
  [nodes |-> graph.nodes, edges |-> graph.edges,
   isDirected |-> graph.isDirected, outDegree |-> d.outDegree,
   adjacencyList |-> d.adjacencyList]

\* The Graph object once the kernel has derived its data: outDegree (line
\* 181) and adjacencyList (line 50) are locals of the kernels, the compiled
\* kernels build their own Graph from the copied arrays, and nothing is
\* assigned to graph or to graph.edges.
GraphAfterDeriving(graph, d) == graph

\* What each kernel derives: powerIterationJS the out-degrees, randomWalkJS
\* the adjacency lists, the compiled kernels both (Graph::addEdge).
DerivedBy(fn, g) ==
  CASE fn = "powerIterationJS" -> [outDegree |-> Derived(g).outDegree]
    [] fn = "randomWalkJS" -> [adjacencyList |-> Derived(g).adjacencyList]
    [] OTHER -> Derived(g)

(***************************************************************************)
(* State.                                                                    *)
(***************************************************************************)
VARIABLES
  wide,            \* TRUE in the wide-input specification (never changes)
  nextTaskId,      \* caller: the id of the next task it submits
  currentTaskId,   \* caller: the task Stop would cancel, 0 when there is none
  inbox,           \* message events queued for self.onmessage
  microtasks,      \* the worker's job queue: continuations of settled awaits
  run,             \* the handleCompute activations, by task id
  workerModule,    \* pagerank.worker.ts: wasmModule is set
  loaderModule,    \* wasmLoader: wasmModule is set
  loadingPromise,  \* wasmLoader: "null", "pending", "fulfilled" or "rejected"
  waiters,         \* the tasks suspended on the pending load, in await order
  loadsStarted,    \* how many loads loadWASM has started
  allocs,          \* the foreign heap
  outbox,          \* the messages the worker has posted, in order
  cancelledAt,     \* task id -> Len(outbox) when its CANCEL was handled
  now,             \* performance.now(), in ticks
  kernelPc,        \* a kernel call on its own: "idle", "sweeping", "walks",
                   \* "walking" or "done"
  input,           \* its arguments: fn, graph, alpha, count, onProgress
  pr,              \* powerIteration: the current vector
  iter,            \* powerIteration: sweeps completed
  trace,           \* powerIteration: the vector after each sweep, in order
  handed,          \* the Graph object of the call: as it was when the kernel
                   \* was called, and as it is now
  derived,         \* the out-degree / adjacency data the call in progress has
                   \* built, empty when no call is in progress
  twin,            \* powerIteration: the dangling nodes, the vector and the
                   \* result of the other kernel called with the same arguments
  without,         \* powerIteration: for each dangling node k, the vector of the
                   \* same call had k been left out of danglingNodes
  reported,        \* the calls of onProgress: after which step, with which value
  visitCount,      \* randomWalk: the visit counters, the part below one block
  visitBlocks,     \* randomWalk: the visit counters, in whole blocks
  recorded,        \* randomWalk: the visits recorded per node, as they happened
  begun,           \* randomWalk: the walks started per node
  startNode,       \* randomWalk: the node the walks start from
  walk,            \* randomWalk: walks completed from startNode
  current,         \* randomWalk: where the walk in progress is
  steps,           \* randomWalk: moves of the walk in progress
  result,          \* the vector the kernel returned
  earlier,         \* the kernel calls completed before this one
  metric,          \* errorMetrics: the last call, its arguments and its outcome
  currentGraph,    \* App: the loaded graph, by its node count, or none
  selectedAlgorithm, \* ParameterPanel: the state `algorithm`
  isComputing,     \* App: a computation is shown as running
  panelTaskId,     \* ParameterPanel: currentTaskId, 0 for null
  results,         \* App: the results list
  groundTruthId,   \* App: the id of the ground truth, 0 for null
  loads,           \* the loads in flight, each with the algorithm its handler
                   \* saw when it was called
  task,            \* the computation in flight: what was submitted, and the
                   \* results list and the ground truth its callbacks saw
                   \* when it was started
  computes,        \* how many computations were started
  loadsBegun,      \* how many datasets and files the user chose
  removed          \* the ids of the results the user deleted or cleared

workerVars == <<wide, nextTaskId, currentTaskId, inbox, microtasks, run,
                workerModule, loaderModule, loadingPromise, waiters,
                loadsStarted, allocs, outbox, cancelledAt, now>>

sweepVars == <<pr, iter, trace, twin, without>>

walkVars == <<visitCount, visitBlocks, recorded, begun, startNode, walk,
              current, steps>>

graphVars == <<handed, derived>>

kernelVars == <<kernelPc, input, graphVars, sweepVars, reported, walkVars,
                result, earlier>>

uiVars == <<currentGraph, selectedAlgorithm, isComputing, panelTaskId,
            results, groundTruthId, loads, task, computes, loadsBegun,
            removed>>

vars == <<workerVars, kernelVars, metric, uiVars>>

callerVars == <<nextTaskId, currentTaskId>>

loaderVars == <<loaderModule, loadingPromise, waiters, loadsStarted>>

InitWorker ==
  /\ nextTaskId = 1
  /\ currentTaskId = 0
  /\ inbox = <<>>
  /\ microtasks = <<>>
  /\ run = <<>>
  /\ workerModule = FALSE
  /\ loaderModule = FALSE
  /\ loadingPromise = "null"
  /\ waiters = <<>>
  /\ loadsStarted = 0
  /\ allocs = <<>>
  /\ outbox = <<>>
  /\ cancelledAt = <<>>
  /\ now = 0

\* No kernel call in progress.
InitKernel ==
  /\ kernelPc = "idle"
  /\ input = [fn |-> "none"]
  /\ handed = <<>>
  /\ derived = <<>>
  /\ pr = <<>>
  /\ iter = 0
  /\ trace = <<>>
  /\ twin = <<>>
  /\ without = <<>>
  /\ reported = <<>>
  /\ visitCount = <<>>
  /\ visitBlocks = <<>>
  /\ recorded = <<>>
  /\ begun = <<>>
  /\ startNode = 0
  /\ walk = 0
  /\ current = 0
  /\ steps = 0
  /\ result = <<>>
  /\ earlier = <<>>

\* No error metric computed yet.
InitMetrics == metric = [fn |-> "none"]

\* App lines 17-20 and ParameterPanel lines 49-57: the state after the first
\* render, with the auto-load of the mount effect (lines 88-107) in flight.
InitUI ==
  /\ currentGraph = [loaded |-> FALSE]
  /\ selectedAlgorithm = "power-iteration-js"
  /\ isComputing = FALSE
  /\ panelTaskId = 0
  /\ results = <<>>
  /\ groundTruthId = 0
  /\ loads = <<[kind |-> "auto", algorithm |-> "power-iteration-js"]>>
  /\ task = [live |-> FALSE]
  /\ computes = 0
  /\ loadsBegun = 0
  /\ removed = {}

Init == wide = FALSE /\ InitWorker /\ InitKernel /\ InitMetrics /\ InitUI

InitWide ==
  wide = TRUE /\ InitWorker /\ InitKernel /\ InitMetrics /\ InitUI

\* The tasks a behaviour may submit, and the inputs they are drawn from.
TaskBudget == IF wide THEN 1 ELSE MaxTasks

Payloads == IF wide THEN WidePayloads ELSE NarrowPayloads

(***************************************************************************)
(* The caller (ParameterPanel.handleCompute / handleStop through the worker  *)
(* hook).  It may submit a task whatever the worker is doing; Stop cancels   *)
(* the task submitted last, once.                                            *)
(***************************************************************************)
\* handleCompute, lines 171-214: compute(...) posts the COMPUTE message under a
\* fresh task id, which becomes currentTaskId.
SendCompute ==
  /\ nextTaskId <= TaskBudget
  /\ \E payload \in Payloads :
       inbox' = Append(inbox, [type |-> "COMPUTE", taskId |-> nextTaskId,
                               payload |-> payload])
  /\ currentTaskId' = nextTaskId
  /\ nextTaskId' = nextTaskId + 1
  /\ UNCHANGED <<uiVars, metric, kernelVars, wide, now, microtasks, run, workerModule, loaderVars, allocs,
                 outbox, cancelledAt>>

\* handleStop, lines 217-226: cancel(currentTaskId) posts the CANCEL message
\* and currentTaskId is cleared.
SendCancel ==
  /\ currentTaskId # 0
  /\ inbox' = Append(inbox, [type |-> "CANCEL", taskId |-> currentTaskId,
                             payload |-> "none"])
  /\ currentTaskId' = 0
  /\ UNCHANGED <<uiVars, metric, kernelVars, wide, now, nextTaskId, microtasks, run, workerModule, loaderVars,
                 allocs, outbox, cancelledAt>>

(***************************************************************************)
(* self.onmessage (pagerank.worker.ts, lines 276-295).  A message event is   *)
(* dispatched only when the job queue is empty.                              *)
(***************************************************************************)
Dispatching(type) ==
  /\ inbox # <<>>
  /\ microtasks = <<>>
  /\ Head(inbox).type = type

\* What the clock may add while a kernel runs, and while the module loads
\* (one choice each where several tasks interleave).
KernelDurations == IF wide THEN {0, 1, 2} ELSE {1}

LoadDurations == IF wide THEN {0, 1, 2} ELSE {2}

\* The seeds line 114 may draw: Math.floor(Math.random() * 0xFFFFFFFF).
DrawnSeeds == IF wide THEN {7, 11} ELSE {11}

\* A handleCompute activation as first recorded: startTime is line 202,
\* loadTime the wasmLoadTime of line 206, seed the seed passed to the compiled
\* random walk (empty while none was passed).
Activation(payload, pc, load) ==
  [payload |-> payload, pc |-> pc, load |-> load,
   fault |-> [stage |-> "none", slot |-> 0], ptrs |-> <<0, 0, 0>>,
   bridged |-> FALSE, tryEntered |-> FALSE, kernelInvoked |-> FALSE,
   kernel |-> "none", exit |-> "none", error |-> "none", liveAtEntry |-> {},
   writes |-> {}, reads |-> {}, resultLength |-> 0, seed |-> <<>>,
   startTime |-> now, loadTime |-> 0, kernelEnd |-> now, time |-> 0]

\* A managed kernel in the place of the other one.
ManagedRunsSwapped(payload) ==
  IF payload.algorithm = "power-iteration-js"
    THEN RandomWalkRuns(payload.graph)
    ELSE PowerIterationRuns(payload.graph, payload.params.walksPerNode)

\* The runs of the managed kernel the payload selects.
ManagedRuns(payload) ==
  IF payload.algorithm = "power-iteration-js"
    THEN PowerIterationRuns(payload.graph, payload.params.iterations)
    ELSE RandomWalkRuns(payload.graph)

\* The compiled function the executor of the payload's algorithm calls:
\* executePowerIterationWASM calls _powerIteration (line 59),
\* executeRandomWalkWASM calls _randomWalk (line 117).
NativeKernel(algorithm) ==
  IF algorithm = "power-iteration-wasm" THEN "_powerIteration" ELSE "_randomWalk"

\* Lines 113-126: the seed executeRandomWalkWASM passes to _randomWalk is the
\* one it draws; executePowerIterationWASM passes none.
SeedsFor(payload) ==
  IF payload.algorithm = "random-walk-wasm" THEN {<<s>> : s \in DrawnSeeds}
                                            ELSE {<<>>}

\* The clock after a bridge call: only the compiled kernel takes time.
AfterBridge(b, d) == IF b.kernelInvoked THEN now + d ELSE now

\* The activation after its bridge call b under fault, which began with the
\* clock at `now` (lines 40, 95: loadTime = performance.now() - loadStart,
\* loadStart being taken when handleCompute called the executor) and whose
\* kernel, if it was called, got seed and took d ticks.
Bridged(r, fault, b, seed, d) ==
  [r EXCEPT !.pc = "settled", !.fault = fault, !.ptrs = b.ptrs,
            !.bridged = TRUE, !.tryEntered = b.tryEntered,
            !.kernelInvoked = b.kernelInvoked,
            !.kernel = IF b.kernelInvoked THEN NativeKernel(r.payload.algorithm)
                                          ELSE "none",
            !.exit = b.exit,
            !.error = b.error, !.liveAtEntry = b.liveAtEntry,
            !.writes = b.writes, !.reads = b.reads,
            !.resultLength = b.resultLength,
            !.seed = IF b.kernelInvoked THEN seed ELSE <<>>,
            !.loadTime = now - r.startTime,
            !.kernelEnd = AfterBridge(b, d)]

\* Lines 236-238: executionTime = (endTime - startTime) - wasmLoadTime, with
\* endTime read when handleCompute goes on after the executor.
ExecutionTime(r, endTime) == (endTime - r.startTime) - r.loadTime

Job(t, kind, cause) == [task |-> t, kind |-> kind, cause |-> cause]

\* case 'CANCEL': the request is logged and nothing else.
OnCancel ==
  /\ Dispatching("CANCEL")
  /\ cancelledAt' = (Head(inbox).taskId :> Len(outbox)) @@ cancelledAt
  /\ inbox' = Tail(inbox)
  /\ UNCHANGED <<uiVars, metric, kernelVars, wide, now, callerVars, microtasks, run, workerModule, loaderVars,
                 allocs, outbox>>

\* handleCompute with an identifier the switch does not know: the default
\* branch throws inside the try block.
ComputeUnknown ==
  /\ Dispatching("COMPUTE")
  /\ LET m == Head(inbox)
         t == m.taskId
         error == UnknownAlgorithmError(m.payload.algorithm)
     IN /\ m.payload.algorithm \notin AlgorithmType
        /\ run' = (t :> [Activation(m.payload, "done", "none")
                           EXCEPT !.exit = "throw", !.error = error]) @@ run
        /\ outbox' = outbox \o TerminalMsgs(t, "throw", error, 0)
  /\ inbox' = Tail(inbox)
  /\ UNCHANGED <<uiVars, metric, kernelVars, wide, now, callerVars, microtasks, workerModule, loaderVars, allocs,
                 cancelledAt>>

\* handleCompute for 'power-iteration-js' / 'random-walk-js': the kernel runs
\* to its end inside the handler, posting its progress, and the terminal
\* message follows.
ComputeManaged ==
  /\ Dispatching("COMPUTE")
  /\ LET m == Head(inbox)
         t == m.taskId
     IN /\ m.payload.algorithm \in JsAlgorithms
        /\ \E k \in ManagedRuns(m.payload), d \in KernelDurations :
             LET r == [Activation(m.payload, "done", "none")
                         EXCEPT !.kernelInvoked = TRUE,
                                !.kernel = k.kernel, !.exit = k.exit,
                                !.error = k.error, !.kernelEnd = now + d]
                 time == ExecutionTime(r, now + d)
             IN /\ run' = (t :> [r EXCEPT !.time = time]) @@ run
                /\ outbox' = outbox \o ProgressMsgs(t, k.progress)
                                    \o TerminalMsgs(t, k.exit, k.error, time)
                /\ now' = now + d
  /\ inbox' = Tail(inbox)
  /\ UNCHANGED <<uiVars, metric, kernelVars, wide, callerVars, microtasks, workerModule, loaderVars, allocs,
                 cancelledAt>>

(***************************************************************************)
(* handleCompute for 'power-iteration-wasm' / 'random-walk-wasm'.            *)
(***************************************************************************)
\* If the worker already holds the module (lines 37, 92) there is no await:
\* the bridge call runs inside the handler, and handleCompute's await of it
\* continues as a job.  Otherwise the handler awaits loadWASM() (lines 38, 93).
ComputeNative ==
  /\ Dispatching("COMPUTE")
  /\ LET m == Head(inbox)
         t == m.taskId
         how == LoadWASM(loaderModule, loadingPromise)
         suspends == how = "start" \/ (how = "share" /\ loadingPromise = "pending")
     IN /\ m.payload.algorithm \in WasmAlgorithms
        /\ IF workerModule
             THEN /\ \E fault \in BridgeFaults, seed \in SeedsFor(m.payload),
                          d \in KernelDurations :
                       LET b == BridgeCall(allocs, t, m.payload.graph, fault)
                       IN /\ run' = (t :> Bridged(Activation(m.payload, "settled",
                                                            "worker"),
                                                 fault, b, seed, d))
                                    @@ run
                          /\ allocs' = b.allocs
                          /\ now' = AfterBridge(b, d)
                  /\ microtasks' = <<Job(t, "executeSettled", "none")>>
                  /\ UNCHANGED loaderVars
             ELSE /\ run' = (t :> Activation(m.payload,
                                             IF suspends THEN "awaitLoad"
                                                         ELSE "resuming",
                                             how)) @@ run
                  /\ loadsStarted' = IF how = "start" THEN loadsStarted + 1
                                                      ELSE loadsStarted
                  /\ loadingPromise' = IF how = "start" THEN "pending"
                                                        ELSE loadingPromise
                  /\ waiters' = IF suspends THEN Append(waiters, t) ELSE waiters
                  /\ microtasks' =
                       IF suspends THEN <<>>
                       ELSE IF how = "share" /\ loadingPromise = "rejected"
                         THEN <<Job(t, "loadRejected", "StaleRejection")>>
                       ELSE <<Job(t, "moduleReady", "none")>>
                  /\ UNCHANGED <<loaderModule, allocs, now>>
  /\ inbox' = Tail(inbox)
  /\ UNCHANGED <<uiVars, metric, kernelVars, wide, callerVars, workerModule, outbox, cancelledAt>>

(***************************************************************************)
(* The load settles (the async function assigned to loadingPromise, lines    *)
(* 173-241): every task awaiting it is resumed, in the order they awaited.   *)
(***************************************************************************)
Resume(kind, cause) == [i \in 1..Len(waiters) |-> Job(waiters[i], kind, cause)]

MarkResuming == [t \in DOMAIN run |->
                   IF run[t].pc = "awaitLoad" THEN [run[t] EXCEPT !.pc = "resuming"]
                                              ELSE run[t]]

LoadSucceeds ==
  /\ loadingPromise = "pending"
  /\ microtasks = <<>>
  /\ loaderModule' = TRUE
  /\ loadingPromise' = "fulfilled"
  /\ microtasks' = Resume("moduleReady", "none")
  /\ run' = MarkResuming
  /\ waiters' = <<>>
  /\ \E d \in LoadDurations : now' = now + d
  /\ UNCHANGED <<uiVars, metric, kernelVars, wide, callerVars, inbox, workerModule, loadsStarted, allocs,
                 outbox, cancelledAt>>

LoadFails ==
  /\ loadingPromise = "pending"
  /\ microtasks = <<>>
  /\ \E cause \in LoadErrors : microtasks' = Resume("loadRejected", cause)
  /\ loadingPromise' = PromiseAfterFailure
  /\ run' = MarkResuming
  /\ waiters' = <<>>
  /\ \E d \in LoadDurations : now' = now + d
  /\ UNCHANGED <<uiVars, metric, kernelVars, wide, callerVars, inbox, workerModule, loaderModule,
                 loadsStarted, allocs, outbox, cancelledAt>>

(***************************************************************************)
(* Jobs: the continuations of the worker's awaits.                           *)
(***************************************************************************)
Running(kind) == microtasks # <<>> /\ Head(microtasks).kind = kind

\* `wasmModule = await loadWASM()` continues with the module: the worker caches
\* it and the bridge call runs to its end.
ModuleReady ==
  /\ Running("moduleReady")
  /\ LET t == Head(microtasks).task
     IN \E fault \in BridgeFaults, seed \in SeedsFor(run[t].payload),
           d \in KernelDurations :
          LET b == BridgeCall(allocs, t, run[t].payload.graph, fault)
          IN /\ run' = [run EXCEPT ![t] = Bridged(@, fault, b, seed, d)]
             /\ allocs' = b.allocs
             /\ now' = AfterBridge(b, d)
             /\ microtasks' = Append(Tail(microtasks),
                                     Job(t, "executeSettled", "none"))
  /\ workerModule' = TRUE
  /\ UNCHANGED <<uiVars, metric, kernelVars, wide, callerVars, inbox, loaderVars, outbox, cancelledAt>>

\* The await of loadWASM() throws the load's error: the execute function
\* rejects before its first _malloc.
LoadRejected ==
  /\ Running("loadRejected")
  /\ LET j == Head(microtasks)
     IN /\ run' = [run EXCEPT ![j.task].pc = "settled", ![j.task].exit = "throw",
                              ![j.task].error = j.cause]
        /\ microtasks' = Append(Tail(microtasks),
                                Job(j.task, "executeSettled", "none"))
  /\ UNCHANGED <<uiVars, metric, kernelVars, wide, now, callerVars, inbox, workerModule, loaderVars, allocs,
                 outbox, cancelledAt>>

\* handleCompute continues after `await execute...WASM(message)`: lines 212-257
\* when it returned, the catch block (lines 258-270) when it threw.
ExecuteSettled ==
  /\ Running("executeSettled")
  /\ LET t == Head(microtasks).task
         time == ExecutionTime(run[t], now)
     IN /\ outbox' = outbox \o TerminalMsgs(t, run[t].exit, run[t].error, time)
        /\ run' = [run EXCEPT ![t].pc = "done", ![t].time = time]
  /\ microtasks' = Tail(microtasks)
  /\ UNCHANGED <<uiVars, metric, kernelVars, wide, now, callerVars, inbox, workerModule, loaderVars, allocs,
                 cancelledAt>>

Next ==
  \/ SendCompute
  \/ SendCancel
  \/ OnCancel
  \/ ComputeUnknown
  \/ ComputeManaged
  \/ ComputeNative
  \/ LoadSucceeds
  \/ LoadFails
  \/ ModuleReady
  \/ LoadRejected
  \/ ExecuteSettled

Spec == Init /\ [][Next]_vars

\* One task drawn from the wide inputs.
SpecWide == InitWide /\ [][Next]_vars

(***************************************************************************)
(* A kernel called on its own, step by step.                                 *)
(***************************************************************************)
\* Well-formed graphs: every endpoint is a node; duplicate edges and self-loops
\* are allowed.
Empty(n) == [nodes |-> n, edges |-> <<>>]

Star == [nodes |-> 4, edges |-> << <<0, 1>>, <<0, 2>>, <<0, 3>> >>]

\* A duplicate edge, a self-loop and a dangling node.
Mixed ==
  [nodes |-> 4,
   edges |-> << <<0, 1>>, <<0, 1>>, <<1, 1>>, <<1, 2>>, <<2, 0>> >>]

\* The iteration count of the tests of powerIterationJS.
TestIterations == 100

KernelGraphs ==
  {Empty(n) : n \in 1..MaxKernelNodes} \cup {Ring(n) : n \in 1..MaxKernelNodes}
  \cup {Star, Mixed}

\* 0.5, 0.85 and 0.9.
KernelAlphas ==
  {[num |-> 1, den |-> 2], [num |-> 17, den |-> 20], [num |-> 9, den |-> 10]}

\* How a power-iteration kernel may be called: the managed one with or without
\* a progress callback, the compiled one (which takes none).
PowerIterationCallers ==
  {[fn |-> "powerIterationJS", onProgress |-> p] : p \in BOOLEAN}
  \cup {[fn |-> "_powerIteration", onProgress |-> FALSE]}

KernelInput(caller, g, alpha, count) ==
  [fn |-> caller.fn, graph |-> g, alpha |-> alpha, count |-> count,
   onProgress |-> caller.onProgress]

PowerIterationInputs ==
  {KernelInput(c, g, a, k) : c \in PowerIterationCallers, g \in KernelGraphs,
                             a \in KernelAlphas,
                             k \in {1, 2, 3, 10, 11, 20, MaxSweeps}}
  \cup {KernelInput(c, g, [num |-> 17, den |-> 20], TestIterations) :
          c \in PowerIterationCallers, g \in {Ring(3), Star, Empty(5)}}

\* The kernel is called with arguments i: it is handed the Graph object and
\* derives its data.
Handed(i) ==
  LET graph == GraphObject(i.graph, ~IsSymmetric(i.graph))
  IN /\ handed' = [atCall |-> graph,
                   now |-> GraphAfterDeriving(graph, Derived(i.graph))]
     /\ derived' = DerivedBy(i.fn, i.graph)

\* The kernel returns: its locals are gone.
Discarded == derived' = <<>> /\ UNCHANGED handed

\* A vector kept from the call before, where there was one on as many nodes.
EnterPowerIterationWarm(i) ==
  /\ input' = i
  /\ pr' = IF DOMAIN result = Nodes(i.graph) THEN result
                                             ELSE InitialVector(i.graph)
  /\ iter' = 0
  /\ trace' = <<>>
  /\ Handed(i)
  /\ twin' = TwinEntered(i)
  /\ without' = [k \in DanglingNodes(i.graph) |-> InitialVector(i.graph)]
  /\ reported' = <<>>
  /\ kernelPc' = "sweeping"

\* Lines 168-205: the call starts from fresh arrays, pr filled with 1/n.
EnterPowerIteration(i) ==
  /\ input' = i
  /\ pr' = InitialVector(i.graph)
  /\ iter' = 0
  /\ trace' = <<>>
  /\ Handed(i)
  /\ twin' = TwinEntered(i)
  /\ without' = [k \in DanglingNodes(i.graph) |-> InitialVector(i.graph)]
  /\ reported' = <<>>
  /\ kernelPc' = "sweeping"

StartPowerIterationOn(inputs) ==
  /\ kernelPc = "idle"
  /\ \E i \in inputs : EnterPowerIteration(i)
  /\ UNCHANGED <<uiVars, metric, workerVars, walkVars, result, earlier>>

StartPowerIteration == StartPowerIterationOn(PowerIterationInputs)

\* One sweep too many.
LoopContinuesInclusive(it, iterations) == it <= iterations

\* Line 208: `iter < iterations`, the only condition of the loop.
LoopContinues(it, iterations) == it < iterations

\* Lines 209-235: one sweep, then the progress report.
PowerIterationSweep ==
  /\ kernelPc = "sweeping"
  /\ LoopContinues(iter, input.count)
  /\ pr' = KernelSweep(input.fn, input.graph, input.alpha, pr)
  /\ twin' = [twin EXCEPT !.pr = KernelSweep(OtherKernel(input.fn),
                                             input.graph, input.alpha, @)]
  /\ iter' = iter + 1
  /\ trace' = Append(trace, pr')
  /\ without' = [k \in DOMAIN without |->
                   SweepWith(input.graph, input.alpha, without[k],
                             DanglingNodesWithout(input.graph, k))]
  /\ reported' =
       IF input.onProgress /\ PowerIterationReportsAfter(iter)
         THEN Append(reported,
                     [after |-> iter + 1,
                      value |-> PowerIterationProgressValue(iter, input.count)])
         ELSE reported
  /\ UNCHANGED <<uiVars, metric, workerVars, graphVars, kernelPc, input, walkVars, result, earlier>>

\* Lines 238-254: the loop is over, the vector is normalized and returned.
PowerIterationReturn ==
  /\ kernelPc = "sweeping"
  /\ ~LoopContinues(iter, input.count)
  /\ result' = KernelNormalized(input.fn, input.graph, pr)
  /\ twin' = [twin EXCEPT !.result = KernelNormalized(OtherKernel(input.fn),
                                                     input.graph, twin.pr)]
  /\ Discarded
  /\ kernelPc' = "done"
  /\ UNCHANGED <<uiVars, metric, workerVars, input, pr, iter, trace, without, reported,
                 walkVars, earlier>>

\* A completed call, as remembered.
Completed == [input |-> input, trace |-> trace, reported |-> reported,
              result |-> result]

\* Another call on three sweeps of the star.
OtherInput(i) ==
  KernelInput([fn |-> i.fn, onProgress |-> FALSE], Star,
              [num |-> 17, den |-> 20], 3)

\* The kernel is called again: with the arguments of this call or of an
\* earlier one (with or without the callback, where it takes one), or with
\* other ones.  The model follows calls of fewer than 20 sweeps with another.
CallPowerIterationAgain ==
  /\ kernelPc = "done"
  /\ input.fn \in {"powerIterationJS", "_powerIteration"}
  /\ input.count < 20
  /\ Len(earlier) < MaxEarlier
  /\ earlier' = Append(earlier, Completed)
  /\ \E i \in {KernelInput(c, j.graph, j.alpha, j.count) :
                 c \in {d \in PowerIterationCallers : d.fn = input.fn},
                 j \in {input, OtherInput(input)}
                       \cup {earlier[k].input : k \in 1..Len(earlier)}} :
       EnterPowerIteration(i)
  /\ UNCHANGED <<uiVars, metric, workerVars, walkVars, result>>

(***************************************************************************)
(* Random walk (randomWalkJS, lines 32-132; the compiled randomWalk,         *)
(* src/unnamed/part_005 lines 163-247, is the same computation).  Every draw *)
(* of Math.random() / rand() is a choice: with alpha strictly between 0 and  *)
(* 1 a walk may stop or go on at every step, and any neighbour or any        *)
(* teleport target may be drawn.                                             *)
(***************************************************************************)
RandomWalkCallers ==
  {[fn |-> "randomWalkJS", onProgress |-> p] : p \in BOOLEAN}
  \cup {[fn |-> "_randomWalk", onProgress |-> FALSE]}

\* Every node but node 0 leads to node 0, which leads to itself.
Funnel == [nodes |-> 3, edges |-> << <<0, 0>>, <<1, 0>>, <<2, 0>> >>]

\* A run of 2^29 walks per node or more is stepped a block of 2^29 walks at a
\* time, and its counters are kept in blocks of 2^29 visits; walksPerNode is an
\* int of the compiled kernel, below 2^31.
BlockWalks == 2^29

LongWalkInputs ==
  {KernelInput(c, g, [num |-> 17, den |-> 20], k * BlockWalks) :
     c \in RandomWalkCallers, g \in {Empty(1), Ring(1), Funnel},
     k \in 1..MaxBlocks}

RandomWalkInputs ==
  {KernelInput(c, g, [num |-> 17, den |-> 20], k) :
     c \in RandomWalkCallers,
     g \in {Empty(n) : n \in 1..MaxWalkNodes}
           \cup {Ring(n) : n \in 1..MaxWalkNodes}
           \cup {[nodes |-> 3, edges |-> << <<0, 1>>, <<0, 2>>, <<1, 0>> >>]},
     k \in 1..MaxWalks}
  \cup LongWalkInputs

\* Lines 50-53: the targets of the edges leaving v, as edge indices.
Neighbors(g, v) == {i \in 1..Len(g.edges) : g.edges[i][1] = v}

\* Line 62: visitCount is a Uint32Array, whose entries wrap at 2^32, 8 blocks.
Uint32Blocks == 2^3

\* A counter of the kernel holding that many blocks: the managed kernel's
\* wraps at 2^32; the compiled kernel's is an unsigned long long
\* (pagerank.cpp, line 183), which wraps at 2^64, beyond every count of the
\* model.
CounterBlocks(fn, blocks) ==
  IF fn = "randomWalkJS" THEN blocks % Uint32Blocks ELSE blocks

\* visitCount[v]++ for a single visit; the counts of the runs stepped walk by
\* walk stay far below a block.
Counted(counts, v) == [counts EXCEPT ![v] = @ + 1]

\* The visit as it happened.
Recorded(visits, v) == [visits EXCEPT ![v].units = @ + 1]

\* Lines 37-62.
StartRandomWalkOn(inputs) ==
  /\ kernelPc = "idle"
  /\ \E i \in inputs :
       /\ input' = i
       /\ Handed(i)
       /\ visitCount' = [v \in Nodes(i.graph) |-> 0]
       /\ visitBlocks' = [v \in Nodes(i.graph) |-> 0]
       /\ recorded' = [v \in Nodes(i.graph) |-> [blocks |-> 0, units |-> 0]]
       /\ begun' = [v \in Nodes(i.graph) |-> 0]
  /\ startNode' = 0
  /\ walk' = 0
  /\ reported' = <<>>
  /\ kernelPc' = "walks"
  /\ UNCHANGED <<uiVars, metric, workerVars, sweepVars, current, steps, result, earlier>>

StartRandomWalk == StartRandomWalkOn(RandomWalkInputs)

\* Lines 65-70: a walk starts at startNode, which is counted.
BeginWalk ==
  /\ kernelPc = "walks"
  /\ startNode < input.graph.nodes
  /\ walk < input.count
  /\ input.count - walk < BlockWalks
  /\ current' = startNode
  /\ visitCount' = Counted(visitCount, startNode)
  /\ recorded' = Recorded(recorded, startNode)
  /\ begun' = [begun EXCEPT ![startNode] = @ + 1]
  /\ steps' = 0
  /\ kernelPc' = "walking"
  /\ UNCHANGED <<uiVars, metric, workerVars, graphVars, input, sweepVars, reported, visitBlocks,
                 startNode, walk, result, earlier>>

\* m walks from startNode are over: the next walk from startNode, or, after
\* the last one, the progress report (lines 93-97) and the next start node.
AfterWalks(m) ==
  /\ kernelPc' = "walks"
  /\ IF walk + m < input.count
       THEN /\ walk' = walk + m
            /\ UNCHANGED <<startNode, reported>>
       ELSE /\ walk' = 0
            /\ startNode' = startNode + 1
            /\ reported' =
                 IF /\ input.onProgress
                    /\ RandomWalkReportsAfter(startNode, input.graph.nodes)
                   THEN Append(reported,
                               [after |-> startNode + 1,
                                value |-> RandomWalkProgressValue(
                                            startNode, input.graph.nodes)])
                   ELSE reported

AfterWalk == AfterWalks(1)

\* The comparison of line 73 the other way round.
CannotStop(alpha) == alpha.num > alpha.den

\* Line 73, `Math.random() < alpha`: the draw lies in [0, 1), so it can be
\* not below alpha when alpha is below 1.
CanStop(alpha) == alpha.num < alpha.den

\* Line 73: the draw is not below alpha.
WalkStops ==
  /\ kernelPc = "walking"
  /\ CanStop(input.alpha)
  /\ AfterWalk
  /\ UNCHANGED <<uiVars, metric, workerVars, graphVars, input, sweepVars, visitCount, visitBlocks,
                 recorded, begun, current, steps, result, earlier>>

\* The teleport without the break of line 81: the walk goes on from the node it
\* landed on.
WalkTeleportsWithoutBreak ==
  /\ kernelPc = "walking"
  /\ Neighbors(input.graph, current) = {}
  /\ steps < MaxWalkSteps
  /\ \E v \in Nodes(input.graph) :
       /\ current' = v
       /\ visitCount' = Counted(visitCount, v)
       /\ recorded' = Recorded(recorded, v)
  /\ steps' = steps + 1
  /\ UNCHANGED <<uiVars, metric, workerVars, graphVars, kernelPc, input, sweepVars, reported, visitBlocks,
                 begun, startNode, walk, result, earlier>>

\* Lines 77-82: at a dangling node the walk teleports to any node, which is
\* counted, and ends.
WalkTeleports ==
  /\ kernelPc = "walking"
  /\ Neighbors(input.graph, current) = {}
  /\ \E v \in Nodes(input.graph) :
       /\ current' = v
       /\ visitCount' = Counted(visitCount, v)
       /\ recorded' = Recorded(recorded, v)
  /\ AfterWalk
  /\ UNCHANGED <<uiVars, metric, workerVars, graphVars, input, sweepVars, visitBlocks, begun, steps,
                 result, earlier>>

\* Lines 85-89: the walk moves along one of the edges leaving the node, and the
\* target is counted.
WalkMoves ==
  /\ kernelPc = "walking"
  /\ steps < MaxWalkSteps
  /\ \E i \in Neighbors(input.graph, current) :
       /\ current' = input.graph.edges[i][2]
       /\ visitCount' = Counted(visitCount, input.graph.edges[i][2])
       /\ recorded' = Recorded(recorded, input.graph.edges[i][2])
  /\ steps' = steps + 1
  /\ UNCHANGED <<uiVars, metric, workerVars, graphVars, kernelPc, input, sweepVars, reported, visitBlocks,
                 begun, startNode, walk, result, earlier>>

\* The nodes a walk from v visits, in order, when it draws k times or fewer
\* before it stops (lines 67-90).
RECURSIVE Routes(_, _, _)
Routes(g, v, k) ==
  {<<v>>}
  \cup (IF k = 0 THEN {}
        ELSE IF Neighbors(g, v) = {} THEN {<<v, w>> : w \in Nodes(g)}
        ELSE UNION {{<<v>> \o r : r \in Routes(g, g.edges[i][2], k - 1)} :
                      i \in Neighbors(g, v)})

\* How many times the route visits v.
Occurrences(route, v) == Cardinality({i \in 1..Len(route) : route[i] = v})

\* Lines 66-91, 2^29 times over: a block of walks from startNode that all go
\* the same way, each visit of the route counted 2^29 times.
WalkBlock ==
  /\ kernelPc = "walks"
  /\ startNode < input.graph.nodes
  /\ input.count - walk >= BlockWalks
  /\ \E route \in Routes(input.graph, startNode, MaxWalkSteps) :
       /\ visitBlocks' =
            [v \in Nodes(input.graph) |->
               CounterBlocks(input.fn, visitBlocks[v] + Occurrences(route, v))]
       /\ recorded' =
            [v \in Nodes(input.graph) |->
               [recorded[v] EXCEPT !.blocks = @ + Occurrences(route, v)]]
  /\ begun' = [begun EXCEPT ![startNode] = @ + BlockWalks]
  /\ AfterWalks(BlockWalks)
  /\ UNCHANGED <<uiVars, metric, workerVars, graphVars, input, sweepVars, visitCount, current, steps,
                 result, earlier>>

\* Lines 101-121: the counts divided by their total (the uniform vector when
\* nothing was counted), then normalized.
RandomWalkResult(g, counts) ==
  LET totalVisits == SumOver(counts, Nodes(g))
  IN IF totalVisits = 0
       THEN [v \in Nodes(g) |-> Round(One, g.nodes)]
       ELSE Normalized(g, [v \in Nodes(g) |-> Quotient(counts[v], totalVisits)])

\* The counters in one unit: a run of the model counts single visits or whole
\* blocks, never both, and the scores are the same in either unit.
InOneUnit(blocks, units) ==
  IF \A v \in DOMAIN blocks : blocks[v] = 0 THEN units ELSE blocks

RandomWalkReturn ==
  /\ kernelPc = "walks"
  /\ startNode = input.graph.nodes
  /\ result' = RandomWalkResult(input.graph,
                                InOneUnit(visitBlocks, visitCount))
  /\ Discarded
  /\ kernelPc' = "done"
  /\ UNCHANGED <<uiVars, metric, workerVars, input, sweepVars, reported, walkVars, earlier>>

\* Lines 85-89 after MaxWalkSteps moves of a walk: the walk moves on along an
\* edge; the counters of the model are not kept for these moves.
WalkMovesOn ==
  /\ kernelPc = "walking"
  /\ steps = MaxWalkSteps
  /\ \E i \in Neighbors(input.graph, current) :
       current' = input.graph.edges[i][2]
  /\ UNCHANGED <<uiVars, metric, workerVars, graphVars, kernelPc, input, sweepVars,
                 reported, visitCount, visitBlocks, recorded, begun, steps,
                 startNode, walk, result, earlier>>

NextKernel ==
  \/ StartPowerIteration
  \/ PowerIterationSweep
  \/ PowerIterationReturn
  \/ CallPowerIterationAgain
  \/ StartRandomWalk
  \/ BeginWalk
  \/ WalkStops
  \/ WalkTeleports
  \/ WalkMoves
  \/ WalkBlock
  \/ RandomWalkReturn

\* Kernel calls on their own.
SpecKernel == Init /\ [][NextKernel]_vars

\* The calls whose termination is followed: a few of the calls above, and a
\* random walk called with an alpha of 1 or more, which no draw reaches.
LivePowerIterationInputs ==
  {KernelInput(c, g, [num |-> 17, den |-> 20], k) :
     c \in PowerIterationCallers, g \in {Ring(2), Mixed},
     k \in {1, 3, MaxSweeps}}

LiveRandomWalkInputs ==
  {KernelInput(c, g, [num |-> 17, den |-> 20], k) :
     c \in RandomWalkCallers,
     g \in {Ring(2), [nodes |-> 2, edges |-> << <<0, 1>> >>]},
     k \in {1}}
  \cup {KernelInput(c, Ring(2), AlphaAboveOne, 1) : c \in RandomWalkCallers}

StartPowerIterationLive == StartPowerIterationOn(LivePowerIterationInputs)

StartRandomWalkLive == StartRandomWalkOn(LiveRandomWalkInputs)

\* Kernel calls whose walks are not cut short.
NextKernelLive ==
  \/ StartPowerIterationLive
  \/ PowerIterationSweep
  \/ PowerIterationReturn
  \/ StartRandomWalkLive
  \/ BeginWalk
  \/ WalkStops
  \/ WalkTeleports
  \/ WalkMoves
  \/ WalkMovesOn
  \/ RandomWalkReturn

\* The statements of a kernel other than the draw of line 73: the engine runs
\* a call to completion.
KernelRuns ==
  \/ PowerIterationSweep
  \/ PowerIterationReturn
  \/ BeginWalk
  \/ WalkTeleports
  \/ RandomWalkReturn

\* A call is run on, and a walk that can stop does not go on for ever.
SpecKernelFair ==
  Init /\ [][NextKernelLive]_vars /\ WF_vars(KernelRuns) /\ WF_vars(WalkStops)

(***************************************************************************)
(* What the claims speak of.                                                 *)
(***************************************************************************)
Tasks == DOMAIN run

Posted(t, types) ==
  {i \in 1..Len(outbox) : outbox[i].taskId = t /\ outbox[i].type \in types}

Terminals(t) == Posted(t, {"RESULT", "ERROR"})

Done(t) == run[t].pc = "done"

IsNative(t) == run[t].payload.algorithm \in WasmAlgorithms

\* The task is suspended on the load in flight, or a job will continue it.
WillContinue(t) ==
  \/ loadingPromise = "pending" /\ \E i \in 1..Len(waiters) : waiters[i] = t
  \/ \E i \in 1..Len(microtasks) : microtasks[i].task = t

AllAllocated(t) == \A k \in 1..3 : run[t].ptrs[k] # 0

MallocFailed(t) ==
  run[t].bridged /\ run[t].fault.stage \in {"malloc-null", "malloc-throw"}

\* Message m is the terminal message task t's own run calls for: a RESULT if it
\* returned, an ERROR carrying its error if it threw.
Answers(m, t) ==
  /\ m.taskId = t
  /\ m.type = (IF run[t].exit = "return" THEN "RESULT" ELSE "ERROR")
  /\ m.error = run[t].error

\* C1: every COMPUTE the worker has handled gets exactly one terminal message
\* with its task id, one RESULT or one ERROR: none while the task is still to
\* continue (and then it will continue), one once it has ended, never two; and
\* no message is posted for a task that was not handled.
C1_ExactlyOneTerminal ==
  /\ \A t \in Tasks :
       /\ Cardinality(Terminals(t)) = IF Done(t) THEN 1 ELSE 0
       /\ ~Done(t) => WillContinue(t)
       /\ Done(t) => \E i \in Terminals(t) : Answers(outbox[i], t)
  /\ \A i \in 1..Len(outbox) : outbox[i].taskId \in Tasks

\* C1's case: a native task whose kernel threw has its one ERROR, and another
\* task has its one RESULT.
C1_Witness ==
  \E t, u \in Tasks :
    /\ Done(t) /\ run[t].fault.stage = "kernel"
    /\ Posted(t, {"ERROR"}) # {} /\ Posted(t, {"RESULT"}) = {}
    /\ Done(u) /\ Posted(u, {"RESULT"}) # {} /\ Posted(u, {"ERROR"}) = {}

\* C2: once a task has ended with an ERROR, the worker keeps no trace of the
\* failure in what decides how the next COMPUTE is handled (no rejected load
\* is kept, the module caches agree), and every task handled after it ends with
\* exactly one terminal message of its own: a RESULT if its own run returned, an
\* ERROR carrying its own error otherwise.
C2_FailureIsolated ==
  \A t \in Tasks :
    Posted(t, {"ERROR"}) # {} =>
      /\ loadingPromise # "rejected"
      /\ loaderModule <=> loadingPromise = "fulfilled"
      /\ workerModule => loaderModule
      /\ \A u \in Tasks :
           u > t =>
             /\ run[u].error # "StaleRejection"
             /\ Done(u) =>
                  /\ Cardinality(Terminals(u)) = 1
                  /\ \A i \in Terminals(u) : Answers(outbox[i], u)

\* C2's case: a task failed because the module load failed, and a later native
\* task loaded the module and got its RESULT.
C2_Witness ==
  \E t, u \in Tasks :
    /\ t < u
    /\ Posted(t, {"ERROR"}) # {} /\ run[t].error \in LoadErrors
    /\ IsNative(u) /\ Done(u) /\ Posted(u, {"RESULT"}) # {}

\* a/b < c/d for fractions with positive denominators.
Less(x, y) == x.num * y.den < y.num * x.den

\* C3: every PROGRESS message carries the id of a handled task and a percent
\* within 0..100; the percents of a task's successive PROGRESS messages
\* strictly increase; and each of them is posted before the task's terminal
\* message.
C3_ProgressOrdered ==
  \A i \in 1..Len(outbox) :
    outbox[i].type = "PROGRESS" =>
      LET t == outbox[i].taskId
          p == outbox[i].progress
      IN /\ t \in Tasks
         /\ p.den > 0 /\ 0 <= p.num /\ p.num <= 100 * p.den
         /\ \A j \in Posted(t, {"PROGRESS"}) :
              i < j => Less(p, outbox[j].progress)
         /\ \A j \in Terminals(t) : i < j

\* C3's case: a task has posted at least three PROGRESS messages, the last of
\* them 100 percent, and then its RESULT.
C3_Witness ==
  \E t \in Tasks :
    /\ Cardinality(Posted(t, {"PROGRESS"})) >= 3
    /\ \E i \in Posted(t, {"PROGRESS"}) :
         outbox[i].progress.num = 100 * outbox[i].progress.den
    /\ Posted(t, {"RESULT"}) # {}

\* C4: only one task runs at a time: no task is started before the terminal
\* message of every task started earlier has been posted.
C4_SingleFlight ==
  Cardinality({t \in Tasks : ~Done(t)}) <= 1

\* C5: once the worker has handled the CANCEL of a task, it posts no PROGRESS
\* and no RESULT for that task.
C5_NoRelayAfterCancel ==
  \A t \in DOMAIN cancelledAt :
    \A i \in Posted(t, {"PROGRESS", "RESULT"}) : i <= cancelledAt[t]

\* C6: a bridge call that obtained its three buffers has freed each of them
\* exactly once when it is left, whether it returned or an exception was raised
\* while writing the edges, by the kernel, or while reading the result.
C6_BuffersFreedOnce ==
  \A t \in Tasks :
    run[t].bridged /\ AllAllocated(t) =>
      /\ run[t].tryEntered
      /\ \A k \in 1..3 :
           /\ allocs[run[t].ptrs[k]].owner = t
           /\ allocs[run[t].ptrs[k]].frees = 1

\* C6's case: the kernel raised an exception in a call holding three buffers, the
\* call was left by that exception, and the three buffers are freed.
C6_Witness ==
  \E t \in Tasks :
    /\ run[t].bridged /\ AllAllocated(t)
    /\ run[t].fault.stage = "kernel" /\ run[t].exit = "throw"
    /\ \A k \in 1..3 : allocs[run[t].ptrs[k]].frees = 1

\* C7: when a _malloc of a bridge call fails, the buffers the call had obtained
\* are released, no kernel is invoked, and the task ends with an ERROR.
C7_AllocationFailureReleases ==
  \A t \in Tasks :
    MallocFailed(t) =>
      /\ \A k \in 1..3 :
           run[t].ptrs[k] # 0 => allocs[run[t].ptrs[k]].frees = 1
      /\ ~run[t].kernelInvoked
      /\ run[t].exit = "throw"
      /\ Done(t) => Posted(t, {"ERROR"}) # {} /\ Posted(t, {"RESULT"}) = {}

\* The task that started the load task t awaited: t itself, or the last task
\* before t to start one.
Starter(t) ==
  CHOOSE u \in Tasks :
    /\ u <= t /\ run[u].load = "start"
    /\ \A v \in Tasks : v <= t /\ run[v].load = "start" => v <= u

Settled(t) == run[t].pc \in {"settled", "done"}

LoadFailedFor(t) == run[t].error \in LoadErrors

\* C8: a step starts a load only when no module is cached and no load is in
\* flight, and it starts one load; a task that calls loadWASM while a load is in
\* flight joins that load's waiters and starts none; once the loader holds the
\* module it holds it for good and no load is started again; and a worker that
\* holds the module makes its bridge calls without awaiting a load.
C8_LoadMemoized ==
  [][/\ loadsStarted' # loadsStarted =>
          /\ loadsStarted' = loadsStarted + 1
          /\ ~loaderModule /\ loadingPromise = "null"
          /\ loadingPromise' = "pending"
     /\ loadingPromise = "pending" /\ Len(waiters') > Len(waiters) =>
          /\ loadsStarted' = loadsStarted
          /\ loadingPromise' = "pending"
     /\ loaderModule => loaderModule' /\ loadsStarted' = loadsStarted
     /\ workerModule =>
          /\ workerModule'
          /\ \A t \in DOMAIN run' \ DOMAIN run :
               run'[t].payload.algorithm \in WasmAlgorithms =>
                 run'[t].load = "worker" /\ run'[t].bridged]_vars

\* C8's case: two native tasks awaited one load (the second joined the load in
\* flight), it succeeded, and both made their bridge call.
C8_Witness ==
  \E t, u \in Tasks :
    /\ run[t].load = "start" /\ run[u].load = "share"
    /\ run[t].bridged /\ run[u].bridged
    /\ loadsStarted = 1 /\ loaderModule

\* C9: a task that awaited a load that failed makes no bridge call and ends
\* with one ERROR carrying the load's error; the tasks that awaited the same
\* load share its outcome; loads are started by tasks calling loadWASM only, one
\* per task at most (no retry); and after a failed load nothing is cached, so
\* that a native task arriving then starts a load of its own.
C9_LoadFailure ==
  /\ \A t \in Tasks :
       LoadFailedFor(t) =>
         /\ run[t].load \in {"start", "share"}
         /\ ~run[t].bridged /\ ~run[t].kernelInvoked
         /\ Done(t) => /\ Cardinality(Terminals(t)) = 1
                       /\ \A i \in Terminals(t) :
                            /\ outbox[i].type = "ERROR"
                            /\ outbox[i].error = run[t].error
  /\ \A t \in Tasks :
       run[t].load = "share" /\ Settled(t) =>
         /\ Settled(Starter(t))
         /\ LoadFailedFor(t) <=> LoadFailedFor(Starter(t))
         /\ LoadFailedFor(t) => run[t].error = run[Starter(t)].error
  /\ loadsStarted = Cardinality({t \in Tasks : run[t].load = "start"})
  /\ \A t \in Tasks :
       /\ LoadFailedFor(t)
       /\ \A u \in Tasks : u > t => run[u].load \notin {"start"}
       => loadingPromise = "null" /\ ~loaderModule /\ ~workerModule

\* C9's case: a load failed and its task got the ERROR; a later native task
\* started a second load, which succeeded, and got its RESULT.
C9_Witness ==
  \E t, u \in Tasks :
    /\ t < u
    /\ LoadFailedFor(t) /\ Done(t) /\ Posted(t, {"ERROR"}) # {}
    /\ run[u].load = "start" /\ Done(u) /\ Posted(u, {"RESULT"}) # {}
    /\ loadsStarted = 2

\* C10: a bridge call allocates while no buffer of another call is allocated,
\* no buffer stays allocated once its call has been left (no call is in progress
\* between two steps of the worker), and no buffer is used after it was freed.
C10_BuffersOwnedByCall ==
  /\ \A t \in Tasks : run[t].liveAtEntry = {}
  /\ LivePointers(allocs) = {}
  /\ \A p \in 1..Len(allocs) : ~allocs[p].stale

(***************************************************************************)
(* Rejection of inputs at the task boundary.                                 *)
(***************************************************************************)
\* The iteration count or the number of walks per node of the parameters.
Count(params) ==
  IF "iterations" \in DOMAIN params THEN params.iterations
                                    ELSE params.walksPerNode

\* alpha strictly between 0 and 1 and a positive count.
ValidParams(params) ==
  /\ 0 < params.alpha.num /\ params.alpha.num < params.alpha.den
  /\ Count(params) > 0

\* C11: a COMPUTE whose parameters are invalid (alpha outside (0,1), or a
\* non-positive iteration count or walksPerNode) runs no kernel, managed or
\* native, gets no RESULT, and ends with an ERROR.
C11_InvalidParametersRejected ==
  \A t \in Tasks :
    ~ValidParams(run[t].payload.params) =>
      /\ run[t].kernel = "none" /\ ~run[t].kernelInvoked
      /\ Posted(t, {"RESULT"}) = {}
      /\ Done(t) => Posted(t, {"ERROR"}) # {}

\* C12: a COMPUTE for a graph without nodes runs no kernel, gets no RESULT, and
\* ends with an ERROR.
C12_EmptyGraphRejected ==
  \A t \in Tasks :
    run[t].payload.graph.nodes = 0 =>
      /\ run[t].kernel = "none" /\ ~run[t].kernelInvoked
      /\ Posted(t, {"RESULT"}) = {}
      /\ Done(t) => Posted(t, {"ERROR"}) # {}

\* C13: a COMPUTE with an identifier outside the four known ones runs no
\* kernel, awaits no load, allocates nothing, and has ended with exactly one
\* ERROR naming the identifier (and no RESULT); a COMPUTE with a known
\* identifier runs no kernel but its own, and a managed one touches neither
\* the loader nor the foreign heap.
C13_DispatchByIdentifier ==
  LET own == [a \in AlgorithmType |->
                CASE a = "power-iteration-wasm" -> "_powerIteration"
                  [] a = "power-iteration-js" -> "powerIterationJS"
                  [] a = "random-walk-wasm" -> "_randomWalk"
                  [] OTHER -> "randomWalkJS"]
      named == [a \in UnknownAlgorithms |->
                  IF a = "pagerank-gpu" THEN "Unknown algorithm: pagerank-gpu"
                                        ELSE "Unknown algorithm: random-walk"]
      untouched(t) == /\ run[t].load = "none" /\ ~run[t].bridged
                      /\ run[t].ptrs = <<0, 0, 0>>
                      /\ \A p \in 1..Len(allocs) : allocs[p].owner # t
  IN \A t \in Tasks :
       LET a == run[t].payload.algorithm
       IN IF a \in AlgorithmType
            THEN /\ run[t].kernel \in {"none", own[a]}
                 /\ run[t].kernelInvoked => run[t].kernel = own[a]
                 /\ a \in JsAlgorithms => untouched(t) /\ run[t].kernel = own[a]
            ELSE /\ run[t].kernel = "none" /\ ~run[t].kernelInvoked
                 /\ untouched(t)
                 /\ Done(t)
                 /\ Posted(t, {"RESULT", "PROGRESS"}) = {}
                 /\ Cardinality(Posted(t, {"ERROR"})) = 1
                 /\ \A i \in Posted(t, {"ERROR"}) : outbox[i].error = named[a]

\* C13's case: the COMPUTE with the identifier "random-walk" has its one ERROR
\* naming it, and nothing was loaded or allocated.
C13_Witness ==
  \E t \in Tasks :
    /\ run[t].payload.algorithm = OtherUnknownAlgorithm
    /\ \E i \in Posted(t, {"ERROR"}) :
         outbox[i].error = "Unknown algorithm: random-walk"
    /\ loadsStarted = 0 /\ allocs = <<>>

(***************************************************************************)
(* The kernels' results.                                                     *)
(***************************************************************************)
IsPowerIterationCall == input.fn \in {"powerIterationJS", "_powerIteration"}

IsRandomWalkCall == input.fn \in {"randomWalkJS", "_randomWalk"}

\* The kernel has returned its vector.
Returned == kernelPc = "done"

\* C14: the vector a kernel returns (power iteration or random walk, managed or
\* compiled) for a graph with at least one node, alpha in (0,1) and a positive
\* count has one entry per node, every entry >= 0, and entries summing to 1
\* within 1e-6.
C14_ScoresNormalized ==
  Returned =>
    /\ DOMAIN result = Nodes(input.graph)
    /\ \A v \in Nodes(input.graph) : result[v] >= 0
    /\ Abs(SumOver(result, Nodes(input.graph)) - One) <= Tolerance

\* C14's case: a random walk has returned a vector with unequal entries, after
\* walks that moved along edges and walks that teleported.
C14_Witness ==
  /\ Returned /\ IsRandomWalkCall
  /\ input.graph.edges # <<>> /\ DanglingNodes(input.graph) # {}
  /\ SumOver(visitCount, Nodes(input.graph)) > input.graph.nodes * input.count
  /\ \E v, w \in Nodes(input.graph) : result[v] < result[w]
  /\ Abs(SumOver(result, Nodes(input.graph)) - One) <= Tolerance

\* The arguments of the kernel, the callback apart.
Arguments(i) == <<i.fn, i.graph, i.alpha, i.count>>

\* C15: a power-iteration call goes through the same vectors, sweep after
\* sweep, as every earlier call with the same graph, alpha and iteration count,
\* and returns the same vector, whatever was computed in between and whether
\* or not a progress callback was passed.
C15_Deterministic ==
  IsPowerIterationCall =>
    \A k \in 1..Len(earlier) :
      Arguments(earlier[k].input) = Arguments(input) =>
        /\ Len(trace) <= Len(earlier[k].trace)
        /\ trace = SubSeq(earlier[k].trace, 1, Len(trace))
        /\ Returned => /\ trace = earlier[k].trace
                       /\ result = earlier[k].result

\* C15's case: a call has returned; the call before it had other arguments, and
\* the one before that had the same arguments but for the progress callback.
C15_Witness ==
  /\ Returned /\ IsPowerIterationCall /\ Len(earlier) = 2
  /\ Arguments(earlier[1].input) = Arguments(input)
  /\ earlier[1].input.onProgress # input.onProgress
  /\ Arguments(earlier[2].input) # Arguments(input)
  /\ earlier[2].result # result
  /\ input.count >= 10 /\ trace[1] # trace[2]
  /\ result = earlier[1].result

\* C16: a power-iteration kernel, managed or compiled, has made exactly
\* `iterations` sweeps when it returns, never fewer because the vector has
\* stopped changing and never more; while it runs it has made no more than that.
C16_FixedIterationBudget ==
  IsPowerIterationCall =>
    /\ iter = Len(trace)
    /\ iter <= input.count
    /\ Returned => iter = input.count

\* C16's case: the compiled kernel has returned after all 20 sweeps on a ring,
\* where the vector was the same after the first sweep as after the second.
C16_Witness ==
  /\ Returned /\ input.fn = "_powerIteration"
  /\ input.graph = Ring(3) /\ input.count = 20
  /\ trace[1] = trace[2] /\ trace[1] = trace[20]
  /\ iter = 20

\* C17: the managed power iteration, given a callback, has called it once per
\* ten completed sweeps and at no other time: after `iter` sweeps there were
\* floor(iter / 10) calls, the k-th right after sweep 10k with the value
\* (10k / iterations) * 100; so floor(iterations / 10) calls when it returns.
C17_ProgressEveryTenSweeps ==
  input.fn = "powerIterationJS" /\ input.onProgress =>
    /\ Len(reported) = iter \div 10
    /\ \A k \in 1..Len(reported) :
         /\ reported[k].after = 10 * k
         /\ reported[k].value.den > 0
         /\ reported[k].value.num * input.count
              = 10 * k * 100 * reported[k].value.den
    /\ Returned => Len(reported) = input.count \div 10

\* C17's case: a run of 25 sweeps has returned after two calls, 40% right after
\* sweep 10 and 80% right after sweep 20.
C17_Witness ==
  /\ Returned /\ input.fn = "powerIterationJS" /\ input.onProgress
  /\ input.count = 25 /\ iter = 25
  /\ Len(reported) = 2
  /\ reported[1].after = 10 /\ reported[1].value.num = 40 * reported[1].value.den
  /\ reported[2].after = 20 /\ reported[2].value.num = 80 * reported[2].value.den

\* Scores x and y are equal as float64 results are: within 1e-6.
Close(x, y) == Abs(x - y) <= Tolerance

\* C18: on a graph with at least one node and no edge, power iteration returns
\* the uniform vector: every score is 1/nodeCount (0.2 for five nodes), for
\* every alpha and every positive iteration count of the model.
C18_EmptyGraphUniform ==
  Returned /\ IsPowerIterationCall /\ input.graph.edges = <<>> =>
    /\ \A v \in Nodes(input.graph) :
         Close(result[v] * input.graph.nodes, One)
    /\ \A v, w \in Nodes(input.graph) : result[v] = result[w]
    /\ input.graph.nodes = 5 => \A v \in Nodes(input.graph) : result[v] * 5 = One

\* C18's case: 100 sweeps on five nodes without edges have returned 0.2 for
\* every node.
C18_Witness ==
  /\ Returned /\ input.fn = "powerIterationJS"
  /\ input.graph = Empty(5) /\ input.count = TestIterations /\ iter = TestIterations
  /\ \A v \in 0..4 : result[v] = 20000000

\* A directed cycle through all the nodes of g: every node has one outgoing and
\* one incoming edge.
IsCycle(g) ==
  /\ Len(g.edges) = g.nodes
  /\ \A v \in Nodes(g) :
       /\ Cardinality({i \in 1..Len(g.edges) : g.edges[i][1] = v}) = 1
       /\ Cardinality({i \in 1..Len(g.edges) : g.edges[i][2] = v}) = 1

\* C19: on a directed cycle power iteration returns equal scores for all
\* nodes, each 1/nodeCount, summing to 1.
C19_CycleUniform ==
  Returned /\ IsPowerIterationCall /\ IsCycle(input.graph) =>
    /\ \A v, w \in Nodes(input.graph) : result[v] = result[w]
    /\ \A v \in Nodes(input.graph) :
         Close(result[v] * input.graph.nodes, One)
    /\ Close(SumOver(result, Nodes(input.graph)), One)

\* C19's case: the test's run, 100 sweeps with alpha 0.85 on the cycle
\* 0 -> 1 -> 2 -> 0, has returned a third for every node.
C19_Witness ==
  /\ Returned /\ input.fn = "powerIterationJS"
  /\ input.graph = Ring(3) /\ input.graph.edges = << <<0, 1>>, <<1, 2>>, <<2, 0>> >>
  /\ input.alpha = [num |-> 17, den |-> 20]
  /\ input.count = TestIterations /\ iter = TestIterations
  /\ \A v \in 0..2 : result[v] = 33333333

\* C20: on the star 0->1, 0->2, 0->3 with alpha 0.85, power iteration (100
\* sweeps in the test, any count of the model) gives the hub a strictly smaller
\* score than each leaf, every score strictly positive, and a sum of 1.
C20_StarHubBelowLeaves ==
  /\ Returned /\ IsPowerIterationCall
  /\ input.graph = Star /\ input.alpha = [num |-> 17, den |-> 20]
  => /\ \A v \in 1..3 : result[0] < result[v]
     /\ \A v \in 0..3 : result[v] > 0
     /\ Close(SumOver(result, 0..3), One)

\* C20's case: the test's run of 100 sweeps on the star has returned, with the
\* hub below the first leaf.
C20_Witness ==
  /\ Returned /\ input.fn = "powerIterationJS" /\ input.graph = Star
  /\ input.alpha = [num |-> 17, den |-> 20]
  /\ input.count = TestIterations /\ iter = TestIterations
  /\ result[0] < result[1] /\ result[0] > 0

(***************************************************************************)
(* The share of the dangling nodes.                                          *)
(***************************************************************************)
\* What the call would return had node k been left out of danglingNodes: the
\* same sweeps and the same final rescale.
ResultWithout(k) == Normalized(input.graph, without[k])

\* C21 as stated: on any graph with a dangling node k, the call that leaves k
\* out of danglingNodes returns, for every node other than k, a score
\* different from the one the call returns.
C21_EveryOtherScoreChanges ==
  Returned /\ IsPowerIterationCall =>
    \A k \in DanglingNodes(input.graph) :
      \A v \in Nodes(input.graph) \ {k} : ResultWithout(k)[v] # result[v]

\* C21: on any graph with a dangling node k, from the first sweep on the call
\* that leaves k out of danglingNodes holds a strictly lower score than the
\* call for every node, k included, so that before the final rescale its
\* scores sum to less than those of the call.
C21_DanglingMassDropped ==
  IsPowerIterationCall /\ iter >= 1 =>
    \A k \in DanglingNodes(input.graph) :
      /\ \A v \in Nodes(input.graph) : without[k][v] < pr[v]
      /\ SumOver(without[k], Nodes(input.graph))
           < SumOver(pr, Nodes(input.graph))

\* C21's case: 100 sweeps on the star have returned; with leaf 1 left out the
\* hub and every leaf hold less than in the call, more than 1e-6 is missing
\* from the sum, and the rescale brings the hub back to the score of the call
\* within 1e-6.
C21_Witness ==
  /\ Returned /\ IsPowerIterationCall /\ input.graph = Star
  /\ input.count = TestIterations
  /\ \A v \in 0..3 : without[1][v] < pr[v]
  /\ One - SumOver(without[1], 0..3) > Tolerance
  /\ Close(ResultWithout(1)[0], result[0])

(***************************************************************************)
(* The visits of a random walk.                                              *)
(***************************************************************************)
\* totalVisits (line 101), in the unit of the run.
TotalVisits == SumOver(InOneUnit(visitBlocks, visitCount), Nodes(input.graph))

\* The visits as they happened, in the unit of the run.
VisitsRecorded ==
  InOneUnit([v \in DOMAIN recorded |-> recorded[v].blocks],
            [v \in DOMAIN recorded |-> recorded[v].units])

\* C22: when a random walk on one node or more with walksPerNode >= 1 returns,
\* walksPerNode walks were started from every node, every walk recorded a
\* visit of its start, totalVisits is nodeCount * walksPerNode or more, and it
\* is not 0, so that the uniform fallback was not taken.
C22_EveryWalkCounted ==
  IsRandomWalkCall /\ Returned =>
    LET g == input.graph
        unit == IF input.count >= BlockWalks THEN BlockWalks ELSE 1
    IN /\ \A v \in Nodes(g) :
            /\ begun[v] = input.count
            /\ recorded[v].blocks >= begun[v] \div BlockWalks
            /\ recorded[v].units >= begun[v] % BlockWalks
       /\ TotalVisits >= g.nodes * (input.count \div unit)
       /\ TotalVisits # 0

\* C23: the counter of every node holds the number of visits recorded to it,
\* in the managed and in the compiled kernel, past 2^32 visits as below, and
\* the scores returned are those visits divided by their total.
C23_CountersExact ==
  IsRandomWalkCall =>
    /\ \A v \in Nodes(input.graph) :
         /\ visitCount[v] = recorded[v].units
         /\ visitBlocks[v] = recorded[v].blocks
    /\ Returned => result = RandomWalkResult(input.graph, VisitsRecorded)

\* C24: in a walk, a draw below alpha at a node without outgoing edges moves
\* to some node of the graph, counts one visit there and nothing else, and
\* ends the walk; a draw below alpha at a node with outgoing edges moves along
\* one of them, counts one visit at its target and nothing else, and the walk
\* goes on; a draw that stops the walk counts nothing; the start of a walk
\* counts its start node once.  So a walk on a graph without edges counts one
\* or two visits: its start, then it ends at its first draw.
C24_WalkSteps ==
  [][IsRandomWalkCall /\ input.count < BlockWalks =>
       LET g == input.graph
           out == {i \in 1..Len(g.edges) : g.edges[i][1] = current}
           counted(v) == visitCount'[v] - visitCount[v]
       IN /\ kernelPc = "walks" /\ kernelPc' = "walking" =>
               /\ current' = startNode
               /\ \A v \in Nodes(g) :
                    counted(v) = IF v = startNode THEN 1 ELSE 0
          /\ kernelPc = "walking" =>
               IF visitCount' = visitCount
                 THEN kernelPc' = "walks" /\ current' = current
                 ELSE /\ current' \in Nodes(g)
                      /\ \A v \in Nodes(g) :
                           counted(v) = IF v = current' THEN 1 ELSE 0
                      /\ IF out = {}
                           THEN kernelPc' = "walks"
                           ELSE /\ \E i \in out : g.edges[i][2] = current'
                                /\ kernelPc' = "walking"
          /\ kernelPc = "walking" /\ g.edges = <<>> => kernelPc' = "walks"
    ]_vars

\* C24's case: on two nodes without edges, the first walk from node 0 has
\* teleported to node 1 and ended there, two visits counted in all.
C24_Witness ==
  /\ IsRandomWalkCall /\ input.graph = Empty(2) /\ input.count = 2
  /\ kernelPc = "walks" /\ startNode = 0 /\ walk = 1
  /\ visitCount = (0 :> 1) @@ (1 :> 1) /\ current = 1

(***************************************************************************)
(* The progress of the managed random walk.                                  *)
(***************************************************************************)
\* The PROGRESS messages of task t, in the order they were posted.
Progresses(t) ==
  SelectSeq(outbox, LAMBDA m : m.taskId = t /\ m.type = "PROGRESS")

\* C25: the managed random walk on n >= 1 nodes reports after every block of
\* ceil(n / 10) start nodes and at no other time: its k-th PROGRESS carries
\* (k * ceil(n / 10) / n) * 100, there are floor(n / ceil(n / 10)) of them
\* when the kernel returns, 10 at most, each above 0 and at most 100, each
\* above the one before.
C25_ProgressPerTenth ==
  \A t \in Tasks :
    run[t].payload.algorithm = "random-walk-js" =>
      LET n == run[t].payload.graph.nodes
          block == CHOOSE c \in 0..n :
                     10 * c >= n /\ \A b \in 0..(c - 1) : 10 * b < n
          P == Progresses(t)
      IN /\ Len(P) <= 10
         /\ \A k \in 1..Len(P) :
              /\ k * block <= n
              /\ P[k].progress.den > 0
              /\ P[k].progress.num * n = k * block * 100 * P[k].progress.den
              /\ 0 < P[k].progress.num
              /\ P[k].progress.num <= 100 * P[k].progress.den
              /\ k > 1 => Less(P[k - 1].progress, P[k].progress)
         /\ n >= 1 /\ Done(t) /\ run[t].exit = "return" =>
              Len(P) = n \div block
         /\ n = 0 => P = <<>>

\* C25's case: the managed random walk on 21 nodes has returned after 7
\* reports, one per block of 3 start nodes, the last of them 100 percent.
C25_Witness ==
  \E t \in Tasks :
    /\ run[t].payload.algorithm = "random-walk-js"
    /\ run[t].payload.graph.nodes = 21
    /\ Done(t) /\ run[t].exit = "return"
    /\ Len(Progresses(t)) = 7
    /\ Progresses(t)[1].progress.num * 21 = 300 * Progresses(t)[1].progress.den
    /\ Progresses(t)[7].progress.num = 100 * Progresses(t)[7].progress.den


(***************************************************************************)
(* C26.  The seed of the compiled random walk.                               *)
(***************************************************************************)
\* The native random-walk tasks whose kernel was called.
NativeWalks ==
  {t \in DOMAIN run : /\ run[t].payload.algorithm = "random-walk-wasm"
                      /\ run[t].kernelInvoked}

Seeded(t) == "seed" \in DOMAIN run[t].payload.params

\* C26: the seed given in the parameters of a native random-walk task is the
\* seed passed to the compiled randomWalk, and two such tasks with the same
\* graph, alpha, walksPerNode and seed call it with the same seed (the
\* compiled function is a function of its arguments), so they return the same
\* vector.
C26_SeedReproducible ==
  /\ \A t \in NativeWalks :
       Seeded(t) => run[t].seed = <<run[t].payload.params.seed>>
  /\ \A t, u \in NativeWalks :
       Seeded(t) /\ Seeded(u) /\ run[t].payload = run[u].payload
         => run[t].seed = run[u].seed

(***************************************************************************)
(* C27.  The time a RESULT carries.                                          *)
(***************************************************************************)
Results == {i \in 1..Len(outbox) : outbox[i].type = "RESULT"}

\* C27: the time of every RESULT is the time from the start of handling the
\* task to the completion of its kernel, less the time the task waited for
\* the module; it is never negative; a managed backend subtracts 0.
C27_ComputeTimeExcludesLoad ==
  \A i \in Results :
    LET r == run[outbox[i].taskId]
    IN /\ outbox[i].time = (r.kernelEnd - r.startTime) - r.loadTime
       /\ outbox[i].time >= 0
       /\ r.payload.algorithm \in JsAlgorithms => r.loadTime = 0

(***************************************************************************)
(* C29.  The buffers of a bridge call and the accesses into them.            *)
(***************************************************************************)
\* The access lies inside a buffer task t allocated.
InsideBuffer(t, a) ==
  /\ a.ptr \in DOMAIN allocs
  /\ allocs[a.ptr].owner = t
  /\ a.offset >= 0
  /\ a.offset + a.bytes <= allocs[a.ptr].size

\* C29: a bridge call for a graph of E edges and N nodes allocates buffers of
\* 4E, 4E and 8N bytes; once it is past the copy loop it has written 4 bytes
\* at offset 4i of each index buffer for every i < E; when it returns it has
\* read 8 bytes at offset 8i of the result buffer for every i < N and returns
\* N values; every write and read lies inside the buffer it addresses.
C29_BridgeBuffers ==
  \A t \in DOMAIN run :
    run[t].bridged =>
      LET r == run[t]
          E == Len(r.payload.graph.edges)
          N == r.payload.graph.nodes
      IN /\ \A p \in DOMAIN allocs :
              allocs[p].owner = t =>
                allocs[p].size = IF allocs[p].slot = 3 THEN 8 * N ELSE 4 * E
         /\ r.kernelInvoked =>
              r.writes = {Access(r.ptrs[k], 4 * i, 4) : k \in 1..2,
                                                        i \in 0..(E - 1)}
         /\ r.exit = "return" =>
              /\ r.reads = {Access(r.ptrs[3], 8 * i, 8) : i \in 0..(N - 1)}
              /\ r.resultLength = N
         /\ \A a \in r.writes \cup r.reads : InsideBuffer(t, a)


(***************************************************************************)
(* C28.  The data the kernels derive from the edge list.                     *)
(***************************************************************************)
\* The edges of g leaving v, in edge-list order.
EdgesFrom(g, v) == SelectSeq(g.edges, LAMBDA e : e[1] = v)

\* How many edges of g, as positions of the edge list, leave v.
EdgeCount(g, v) == Cardinality({i \in 1..Len(g.edges) : g.edges[i][1] = v})

\* C28: for the graph of every kernel call and every node v of it,
\* outDegree[v] is the length of adjacency[v] and the number of edges leaving
\* v, duplicates and self-loops counted as often as they are listed;
\* adjacency[v] is the targets of those edges in edge-list order; and v is
\* dangling exactly when that number is 0.
C28_DerivedGraphData ==
  kernelPc # "idle" =>
    LET g == input.graph
        outDegree == OutDegree(g)
        adjacency == AdjacencyList(g)
        danglingNodes == DanglingNodes(g)
    IN \A v \in Nodes(g) :
         /\ outDegree[v] = Len(adjacency[v])
         /\ outDegree[v] = EdgeCount(g, v)
         /\ adjacency[v] =
              [j \in 1..Len(EdgesFrom(g, v)) |-> EdgesFrom(g, v)[j][2]]
         /\ v \in danglingNodes <=> EdgeCount(g, v) = 0
         /\ adjacency[v] = <<>> <=> EdgeCount(g, v) = 0

\* A sweep was made on the graph with a duplicate edge, a self-loop and a
\* dangling node.
C28_Witness ==
  /\ kernelPc = "sweeping"
  /\ iter >= 1
  /\ input.graph = Mixed
  /\ OutDegree(Mixed) = (0 :> 2) @@ (1 :> 2) @@ (2 :> 1) @@ (3 :> 0)
  /\ AdjacencyList(Mixed)[0] = <<1, 1>>
  /\ AdjacencyList(Mixed)[1] = <<1, 2>>
  /\ DanglingNodes(Mixed) = {3}


(***************************************************************************)
(* Error metrics (utils/errorMetrics, src/unnamed/part_003).  The entries of *)
(* the vectors are scores in units of 1e-4; vectors are sequences, entry i   *)
(* of the code being entry i + 1.                                            *)
(***************************************************************************)
MetricUnit == 10000

\* 0, 0.25, 0.5, 0.75.
MetricScores == {0, 2500, 5000, 7500}

RECURSIVE VectorsOfLength(_)
VectorsOfLength(k) ==
  IF k = 0 THEN {<<>>}
  ELSE {Append(vec, x) : vec \in VectorsOfLength(k - 1), x \in MetricScores}

MetricVectors == UNION {VectorsOfLength(k) : k \in 0..MaxVector}

\* An error without the name of the class.
PlainError(len1, len2) ==
  [name |-> "Error", len1 |-> len1, len2 |-> len2]

\* Lines 16-21: new VectorLengthMismatchError(len1, len2).
VectorLengthMismatchError(len1, len2) ==
  [name |-> "VectorLengthMismatchError", len1 |-> len1, len2 |-> len2]

\* How a call ends: with a value, or with an error thrown and no value.
Returns(value) == [threw |-> FALSE, error |-> [name |-> "none"],
                   value |-> <<value>>]

Throws(error) == [threw |-> TRUE, error |-> error, value |-> <<>>]

\* Lines 34, 57, 87: pr.length !== gt.length.
LengthMismatch(a, b) == Len(a) # Len(b)

\* Lines 38-41: the sum of |pr[i] - gt[i]| over the first k entries.
RECURSIVE SumAbs(_, _, _)
SumAbs(a, b, k) ==
  IF k = 0 THEN 0 ELSE SumAbs(a, b, k - 1) + Abs(a[k] - b[k])

\* Lines 61-65: the sum of (pr[i] - gt[i])^2 over the first k entries, in
\* units of 1e-8.
RECURSIVE SumSquares(_, _, _)
SumSquares(a, b, k) ==
  IF k = 0 THEN 0
  ELSE SumSquares(a, b, k - 1) + (a[k] - b[k]) * (a[k] - b[k])

\* The largest r in lo..hi with r * r <= x.
RECURSIVE RootBetween(_, _, _)
RootBetween(x, lo, hi) ==
  IF lo = hi THEN lo
  ELSE LET mid == (lo + hi + 1) \div 2
       IN IF mid * mid <= x THEN RootBetween(x, mid, hi)
                            ELSE RootBetween(x, lo, mid - 1)

\* Line 67: Math.sqrt of a value in units of 1e-8, rounded to the nearest
\* 1e-4.
Sqrt(x) ==
  LET r == RootBetween(x, 0, 2 * MetricUnit)
  IN IF x - r * r > r THEN r + 1 ELSE r

\* Lines 33-44.
calculateL1(a, b) ==
  IF LengthMismatch(a, b)
    THEN Throws(VectorLengthMismatchError(Len(a), Len(b)))
    ELSE Returns(SumAbs(a, b, Len(a)))

\* Lines 56-68.
calculateL2(a, b) ==
  IF LengthMismatch(a, b)
    THEN Throws(VectorLengthMismatchError(Len(a), Len(b)))
    ELSE Returns(Sqrt(SumSquares(a, b, Len(a))))

\* An entry at the threshold counted as well.
QualifiesAtThreshold(x, n) == n # 0 /\ x * n >= MetricUnit

\* Lines 91, 96: gt[i] > 1.0 / n; 1.0 / 0 is Infinity.
Qualifies(x, n) == n # 0 /\ x * n > MetricUnit

\* The entries chosen by the computed score instead of the ground truth.
RECURSIVE MaxRelativeAfterByPr(_, _, _, _)
MaxRelativeAfterByPr(a, b, n, k) ==
  IF k = 0 THEN [maxRelative |-> 0, qualifiedNodes |-> 0]
  ELSE LET before == MaxRelativeAfterByPr(a, b, n, k - 1)
           relativeError == Quotient(Abs(a[k] - b[k]), b[k])
       IN IF Qualifies(a[k], n) /\ b[k] # 0
            THEN [maxRelative |-> IF relativeError > before.maxRelative
                                    THEN relativeError
                                    ELSE before.maxRelative,
                  qualifiedNodes |-> before.qualifiedNodes + 1]
            ELSE before

\* Lines 92-101: maxRelative (a fraction in units of 1e-8) and qualifiedNodes
\* after the first k entries.
RECURSIVE MaxRelativeAfter(_, _, _, _)
MaxRelativeAfter(a, b, n, k) ==
  IF k = 0 THEN [maxRelative |-> 0, qualifiedNodes |-> 0]
  ELSE LET before == MaxRelativeAfter(a, b, n, k - 1)
           relativeError == Quotient(Abs(a[k] - b[k]), b[k])
       IN IF Qualifies(b[k], n)
            THEN [maxRelative |-> IF relativeError > before.maxRelative
                                    THEN relativeError
                                    ELSE before.maxRelative,
                  qualifiedNodes |-> before.qualifiedNodes + 1]
            ELSE before

\* Lines 82-112.
calculateMaxRelative(a, b, n) ==
  IF LengthMismatch(a, b)
    THEN Throws(VectorLengthMismatchError(Len(a), Len(b)))
    ELSE Returns(MaxRelativeAfter(a, b, n, Len(a)))

\* Lines 122-140: the first callee that throws ends the call.
calculateErrorMetrics(a, b) ==
  LET l1 == calculateL1(a, b)
      l2 == calculateL2(a, b)
      rel == calculateMaxRelative(a, b, Len(a))
  IN IF l1.threw THEN l1
     ELSE IF l2.threw THEN l2
     ELSE IF rel.threw THEN rel
     ELSE Returns([l1 |-> l1.value[1], l2 |-> l2.value[1],
                   maxRelative |-> rel.value[1].maxRelative,
                   qualifiedNodes |-> rel.value[1].qualifiedNodes])

\* A call of fn with pr, gt (and n) that ended in outcome.  The functions keep
\* no state, so a behaviour makes one call.
MetricCall(fn, a, b, n, outcome) ==
  [fn |-> fn, pr |-> a, gt |-> b, n |-> n, threw |-> outcome.threw,
   error |-> outcome.error, value |-> outcome.value]

CallCalculateL1 ==
  /\ metric.fn = "none"
  /\ \E a, b \in MetricVectors :
       metric' = MetricCall("calculateL1", a, b, 0, calculateL1(a, b))
  /\ UNCHANGED <<workerVars, kernelVars, uiVars>>

CallCalculateL2 ==
  /\ metric.fn = "none"
  /\ \E a, b \in MetricVectors :
       metric' = MetricCall("calculateL2", a, b, 0, calculateL2(a, b))
  /\ UNCHANGED <<workerVars, kernelVars, uiVars>>

\* The calls of the tests 'calculates max relative error correctly' and
\* 'returns 0 when no nodes qualify' (errorMetrics.test.ts, lines 65-88).
MaxRelativeTests ==
  {[pr |-> <<3000, 2000, 2000, 3000>>, gt |-> <<4000, 2000, 1500, 2500>>,
    n |-> 4],
   [pr |-> <<1000, 2000, 3000, 4000>>, gt |-> <<1000, 2000, 3000, 4000>>,
    n |-> 4]}

MaxRelativeCalls ==
  {[pr |-> a, gt |-> b, n |-> n] :
     a \in MetricVectors, b \in MetricVectors, n \in 0..MaxVector}
  \cup MaxRelativeTests

CallCalculateMaxRelative ==
  /\ metric.fn = "none"
  /\ \E c \in MaxRelativeCalls :
       metric' = MetricCall("calculateMaxRelative", c.pr, c.gt, c.n,
                            calculateMaxRelative(c.pr, c.gt, c.n))
  /\ UNCHANGED <<workerVars, kernelVars, uiVars>>

CallCalculateErrorMetrics ==
  /\ metric.fn = "none"
  /\ \E a, b \in MetricVectors :
       metric' = MetricCall("calculateErrorMetrics", a, b, Len(a),
                            calculateErrorMetrics(a, b))
  /\ UNCHANGED <<workerVars, kernelVars, uiVars>>

NextMetrics ==
  \/ CallCalculateL1
  \/ CallCalculateL2
  \/ CallCalculateMaxRelative
  \/ CallCalculateErrorMetrics

\* The error metrics called on their own.
SpecMetrics == Init /\ [][NextMetrics]_vars

(***************************************************************************)
(* C30.  Vectors of different lengths.                                       *)
(***************************************************************************)
\* C30: a call of calculateL1, calculateL2, calculateMaxRelative or
\* calculateErrorMetrics with vectors of different lengths throws
\* VectorLengthMismatchError and returns no value; with vectors of the same
\* length it does not throw and returns a value.
C30_LengthMismatch ==
  metric.fn # "none" =>
    IF Len(metric.pr) # Len(metric.gt)
      THEN /\ metric.threw
           /\ metric.error.name = "VectorLengthMismatchError"
           /\ metric.value = <<>>
      ELSE /\ ~metric.threw
           /\ metric.error.name # "VectorLengthMismatchError"
           /\ Len(metric.value) = 1

\* The test 'throws on length mismatch' on vectors of the model: two entries
\* against one, through calculateErrorMetrics.
C30_Witness ==
  /\ metric.fn = "calculateErrorMetrics"
  /\ metric.pr = <<2500, 7500>>
  /\ metric.gt = <<7500>>
  /\ metric.threw
  /\ metric.error = VectorLengthMismatchError(2, 1)


(***************************************************************************)
(* C31, C32.  The maximum relative error.                                    *)
(***************************************************************************)
MaxRelativeReturned ==
  metric.fn = "calculateMaxRelative" /\ ~metric.threw

\* The entries of gt above 1/n, as a set of positions.
AboveThreshold(gt, n) ==
  {i \in 1..Len(gt) : n # 0 /\ gt[i] * n > MetricUnit}

\* |pr[i] - gt[i]| / gt[i], to 8 decimal places.
RelativeError(a, b, i) == Quotient(Abs(a[i] - b[i]), b[i])

FirstTestReturned ==
  /\ MaxRelativeReturned
  /\ metric.pr = <<3000, 2000, 2000, 3000>>
  /\ metric.gt = <<4000, 2000, 1500, 2500>>
  /\ metric.n = 4

\* The call of the test 'returns 0 when no nodes qualify', returned.
SecondTestReturned ==
  /\ MaxRelativeReturned
  /\ metric.pr = <<1000, 2000, 3000, 4000>>
  /\ metric.gt = <<1000, 2000, 3000, 4000>>
  /\ metric.n = 4

Before(k) == IF k = 1 THEN InitialVector(input.graph) ELSE trace[k - 1]

Total(vec) == SumOver(vec, Nodes(input.graph))

\* What the roundings of one sweep can add to or take from the total: two
\* roundings in the fill of every entry, two in every edge's contribution,
\* half a unit each.
RoundingSlack(g) == g.nodes + Len(g.edges)

\* C35: the total after the sweep just made (every sweep is the last one
\* in some state) is the total before it, up to the roundings of that sweep
\* and what the total before it was off by; it stays 1 up to the tolerance of
\* the rescale, so the rescale is never made: the vector returned is the
\* vector of the last sweep.
C35_SweepConservesMass ==
  IsPowerIterationCall /\ kernelPc # "idle" =>
    /\ trace # <<>> =>
         LET after == Total(pr)
             before == Total(Before(Len(trace)))
         IN /\ pr = trace[Len(trace)]
            /\ Abs(after - before)
                 <= RoundingSlack(input.graph) + Abs(before - One)
            /\ Abs(after - One) <= Tolerance
    /\ Returned => result = pr

\* A graph with edges, a duplicate, a self-loop and a dangling node, swept to
\* the end.
C35_Witness ==
  /\ IsPowerIterationCall
  /\ Returned
  /\ input.graph = Mixed
  /\ Len(trace) = MaxSweeps
  /\ result = pr
  /\ pr # InitialVector(Mixed)


(***************************************************************************)
(* C37.  The managed and the compiled power iteration, side by side.         *)
(***************************************************************************)
\* C37: called with the same graph, alpha and iterations, the managed and the
\* compiled power iteration find the same dangling nodes, hold the same
\* vector after every sweep, and return the same vector.
C37_KernelsEquivalent ==
  IsPowerIterationCall /\ kernelPc # "idle" =>
    /\ twin.danglingNodes = KernelDanglingNodes(input.fn, input.graph)
    /\ twin.pr = pr
    /\ Returned => twin.result = result

\* The managed kernel has returned from its sweeps on the graph with a
\* duplicate edge, a self-loop and a dangling node, the compiled one beside it.
C37_Witness ==
  /\ input.fn = "powerIterationJS"
  /\ Returned
  /\ input.graph = Mixed
  /\ iter = MaxSweeps
  /\ twin.danglingNodes = {3}
  /\ twin.result = result
  /\ result # InitialVector(Mixed)

(***************************************************************************)
(* C36.  A kernel leaves the Graph object it is handed as it found it.       *)
(***************************************************************************)
\* C36: from the call of a kernel to after its return the Graph object holds
\* the same node count, the same edges in the same order and the same
\* isDirected, and nothing else; the out-degree and adjacency data of a call
\* is built from the graph of that call and is gone once the call returns.
C36_GraphUnchanged ==
  kernelPc # "idle" =>
    /\ handed.now = handed.atCall
    /\ DOMAIN handed.now = {"nodes", "edges", "isDirected"}
    /\ handed.now.nodes = input.graph.nodes
    /\ handed.now.edges = input.graph.edges
    /\ derived = IF Returned THEN <<>> ELSE DerivedBy(input.fn, input.graph)

\* A second call of the power iteration is in progress, on another graph
\* than the call before it, and its out-degrees are not those of that call.
C36_Witness ==
  /\ IsPowerIterationCall
  /\ kernelPc # "idle" /\ ~Returned
  /\ Len(earlier) >= 1
  /\ earlier[Len(earlier)].input.graph # input.graph
  /\ iter >= 1
  /\ handed.now = GraphObject(input.graph, TRUE)
  /\ derived # DerivedBy(input.fn, earlier[Len(earlier)].input.graph)

(***************************************************************************)
(* C38.  Termination of the kernels.                                         *)
(***************************************************************************)
\* The arguments the claim speaks of.
ValidArguments ==
  /\ input.graph.nodes >= 1
  /\ 0 < input.alpha.num /\ input.alpha.num < input.alpha.den
  /\ input.count >= 1

InCall == kernelPc \notin {"idle", "done"}

WorkerRuns ==
  \/ OnCancel
  \/ ComputeUnknown
  \/ ComputeManaged
  \/ ComputeNative
  \/ LoadSucceeds
  \/ LoadFails
  \/ ModuleReady
  \/ LoadRejected
  \/ ExecuteSettled

SpecWorkerFair == Init /\ [][Next]_vars /\ WF_vars(WorkerRuns)

\* With kernels that return, every task the worker has taken up is answered
\* with a RESULT or an ERROR.
TerminalEventuallyPosted ==
  \A t \in 1..MaxTasks :
    (t \in DOMAIN run) ~> (t \in DOMAIN run /\ Terminals(t) # {})

(***************************************************************************)
(* The panels (ParameterPanel and ResultsPanel, src/unnamed/part_000; App,   *)
(* src/unnamed/part_002).  A handler sees the state of the render it was     *)
(* created in: what an async handler or a callback reads after its await or  *)
(* when the worker answers is the state of the moment it was called.  The    *)
(* collapse and pin flags of a result card are left out.                     *)
(***************************************************************************)
\* Lines 115 and 140: `graph.nodes > 10000`.
LargeGraphNodes == 10000

IsLarge(nodes) == nodes > LargeGraphNodes

\* The built-in datasets have some hundred nodes; a file may hold any graph.
DatasetNodes == {100}

FileNodes == {LargeGraphNodes, LargeGraphNodes + 1}

LoadedNodes(kind) == IF kind = "upload" THEN FileNodes ELSE DatasetNodes

\* The scores a computation may return.
PageRanks == {<<2500, 7500>>, <<5000, 5000>>}

\* Lines 116 and 141: algorithm.replace('-js', '-wasm').
ReplaceJsByWasm(a) ==
  CASE a = "power-iteration-js" -> "power-iteration-wasm"
    [] a = "random-walk-js" -> "random-walk-wasm"
    [] OTHER -> a

RemoveAt(seq, i) == SubSeq(seq, 1, i - 1) \o SubSeq(seq, i + 1, Len(seq))

Ids(list) == {list[i].id : i \in 1..Len(list)}

\* results.filter.
Filter(list, keep(_)) == SelectSeq(list, keep)

\* Lines 109-111 and 129-134: a dataset is chosen or a file is picked; the
\* handler awaits the load.  The controls are disabled while isComputing.
BeginLoad(kind) ==
  /\ ~isComputing
  /\ loadsBegun < MaxLoads
  /\ loadsBegun' = loadsBegun + 1
  /\ loads' = Append(loads, [kind |-> kind, algorithm |-> selectedAlgorithm])
  /\ UNCHANGED <<workerVars, kernelVars, metric, currentGraph,
                 selectedAlgorithm, isComputing, panelTaskId, results,
                 groundTruthId, task, computes, removed>>

handleDatasetChange == BeginLoad("dataset")

handleFileUpload == BeginLoad("upload")

\* The algorithm after a load made by a handler that saw algorithm `seen`:
\* lines 114-119 and 139-144; the mount effect (lines 95-97) only sets the
\* graph.
AlgorithmAfterLoad(kind, seen, nodes, selected) ==
  IF kind # "auto" /\ IsLarge(nodes) /\ seen \in JsAlgorithms
    THEN ReplaceJsByWasm(seen)
    ELSE selected

\* Lines 95-97, 112-119, 134-144: a load is answered with a graph.
LoadResolves ==
  /\ \E i \in 1..Len(loads) :
       \E nodes \in LoadedNodes(loads[i].kind) :
         /\ currentGraph' = [loaded |-> TRUE, nodes |-> nodes]
         /\ selectedAlgorithm' =
              AlgorithmAfterLoad(loads[i].kind, loads[i].algorithm, nodes,
                                 selectedAlgorithm)
         /\ loads' = RemoveAt(loads, i)
  /\ UNCHANGED <<workerVars, kernelVars, metric, isComputing, panelTaskId,
                 results, groundTruthId, task, computes, loadsBegun, removed>>

\* Lines 99-102, 122-125, 147-150: a load fails; nothing but a toast or a log.
LoadThrows ==
  /\ \E i \in 1..Len(loads) : loads' = RemoveAt(loads, i)
  /\ UNCHANGED <<workerVars, kernelVars, metric, currentGraph,
                 selectedAlgorithm, isComputing, panelTaskId, results,
                 groundTruthId, task, computes, loadsBegun,
                 removed>>

\* Lines 343-359: the options of the select; the managed ones are disabled
\* while a graph of more than 10000 nodes is loaded.
EnabledOptions ==
  IF currentGraph.loaded /\ IsLarge(currentGraph.nodes)
    THEN WasmAlgorithms
    ELSE AlgorithmType

\* Lines 338-342: the select, disabled while isComputing.
SelectAlgorithm ==
  /\ ~isComputing
  /\ \E a \in EnabledOptions \ {selectedAlgorithm} : selectedAlgorithm' = a
  /\ UNCHANGED <<workerVars, kernelVars, metric, currentGraph, isComputing,
                 panelTaskId, results, groundTruthId, loads, task, computes,
                 loadsBegun, removed>>

\* Lines 158-214; the button is disabled without a graph and while
\* isComputing (line 468).  The callbacks keep the results and groundTruthId
\* of this render.
handleCompute ==
  /\ currentGraph.loaded
  /\ ~isComputing
  /\ computes < MaxComputes
  /\ computes' = computes + 1
  /\ isComputing' = TRUE
  /\ task' = [live |-> TRUE, id |-> computes + 1,
              algorithm |-> selectedAlgorithm, nodes |-> currentGraph.nodes,
              results |-> results, groundTruthId |-> groundTruthId]
  /\ panelTaskId' = computes + 1
  /\ UNCHANGED <<workerVars, kernelVars, metric, currentGraph,
                 selectedAlgorithm, results, groundTruthId, loads, loadsBegun,
                 removed>>

NoMetrics == [null |-> TRUE]

\* Lines 173-175: results.find and calculateErrorMetrics, on the list and the
\* id the callback holds.  All scores of the model have one length, so the
\* call returns.
MetricsAgainst(list, id, scores) ==
  LET found == {i \in 1..Len(list) : list[i].id = id}
  IN IF found = {} THEN NoMetrics
     ELSE LET groundTruth == list[CHOOSE i \in found : \A j \in found : i <= j]
          IN calculateErrorMetrics(scores, groundTruth.pagerank).value[1]

\* Lines 172-202: onResult sees the results and groundTruthId of the render
\* in which handleCompute ran.
SeenByCallback ==
  [results |-> task.results, groundTruthId |-> task.groundTruthId]

\* Lines 172-202.  The id is `result-${Date.now()}`: a computation is started
\* by a click made after the result before it was shown, so two results carry
\* different time stamps; the model numbers them.
onResult ==
  /\ task.live
  /\ \E scores \in PageRanks :
       LET seen == SeenByCallback
           newResult ==
             [id |-> task.id, algorithm |-> task.algorithm,
              pagerank |-> scores,
              metrics |-> MetricsAgainst(seen.results, seen.groundTruthId,
                                         scores)]
       IN results' = Append(seen.results, newResult)
  /\ isComputing' = FALSE
  /\ panelTaskId' = 0
  /\ task' = [live |-> FALSE]
  /\ UNCHANGED <<workerVars, kernelVars, metric, currentGraph,
                 selectedAlgorithm, groundTruthId, loads, computes, loadsBegun, removed>>

\* Lines 203-208.
onError ==
  /\ task.live
  /\ isComputing' = FALSE
  /\ panelTaskId' = 0
  /\ task' = [live |-> FALSE]
  /\ UNCHANGED <<workerVars, kernelVars, metric, currentGraph,
                 selectedAlgorithm, results, groundTruthId, loads, computes,
                 loadsBegun, removed>>

\* cancel(taskId) of the hook usePageRankWorker, taken from the
\* specification (section 4.5): no result, error or progress of a cancelled
\* task is relayed, so its callbacks never run.
Cancelled(t) == [live |-> FALSE]

\* Lines 217-226; the button is disabled unless isComputing (line 486).
handleStop ==
  /\ isComputing
  /\ panelTaskId # 0
  /\ task' = Cancelled(task)
  /\ isComputing' = FALSE
  /\ panelTaskId' = 0
  /\ UNCHANGED <<workerVars, kernelVars, metric, currentGraph,
                 selectedAlgorithm, results, groundTruthId, loads, computes,
                 loadsBegun, removed>>

\* Lines 228-239; the button is disabled without results and while
\* isComputing (line 495).
handleClearResults ==
  /\ results # <<>>
  /\ ~isComputing
  /\ LET groundTruthResults ==
           Filter(results, LAMBDA r : r.id = groundTruthId)
     IN /\ results' = groundTruthResults
        /\ removed' = removed \cup (Ids(results) \ Ids(groundTruthResults))
  /\ UNCHANGED <<workerVars, kernelVars, metric, currentGraph,
                 selectedAlgorithm, isComputing, panelTaskId, groundTruthId,
                 loads, task, computes, loadsBegun>>

\* Lines 544-556: the target moved to the top of the list.
MovedToTop(list, id) ==
  Filter(list, LAMBDA r : r.id = id) \o Filter(list, LAMBDA r : r.id # id)

\* Lines 535-561: the star button of a card.
handleSetGroundTruth ==
  /\ \E id \in Ids(results) :
       IF groundTruthId = id
         THEN groundTruthId' = 0 /\ UNCHANGED results
         ELSE groundTruthId' = id /\ results' = MovedToTop(results, id)
  /\ UNCHANGED <<workerVars, kernelVars, metric, currentGraph,
                 selectedAlgorithm, isComputing, panelTaskId, loads, task,
                 computes, loadsBegun, removed>>

\* The ground truth left as it was when a card is deleted.
GroundTruthKept(gt, id) == gt

\* Lines 565-567.
GroundTruthAfterDelete(gt, id) == IF gt = id THEN 0 ELSE gt

\* Lines 563-569: the delete button of a card.
handleDeleteResult ==
  /\ \E id \in Ids(results) :
       /\ results' = Filter(results, LAMBDA r : r.id # id)
       /\ groundTruthId' = GroundTruthAfterDelete(groundTruthId, id)
       /\ removed' = removed \cup {id}
  /\ UNCHANGED <<workerVars, kernelVars, metric, currentGraph,
                 selectedAlgorithm, isComputing, panelTaskId, loads, task,
                 computes, loadsBegun>>

\* The results list: computations on the graph of the auto-load, and the
\* buttons of the result cards.
NextUI ==
  \/ LoadResolves
  \/ handleCompute
  \/ onResult
  \/ onError
  \/ handleStop
  \/ handleClearResults
  \/ handleSetGroundTruth
  \/ handleDeleteResult

SpecUI == Init /\ [][NextUI]_vars

\* Loading graphs, selecting algorithms and submitting tasks.
NextPanel ==
  \/ handleDatasetChange
  \/ handleFileUpload
  \/ LoadResolves
  \/ LoadThrows
  \/ SelectAlgorithm
  \/ handleCompute
  \/ onResult
  \/ onError
  \/ handleStop

SpecPanel == Init /\ [][NextPanel]_vars

(***************************************************************************)
(* C33.  Metrics and the ground truth.                                       *)
(***************************************************************************)
\* C33: every result other than the ground truth has no metrics exactly when
\* no ground truth is set, and, when one is set, has the error metrics of
\* its pagerank against the pagerank of the current ground truth.
C33_MetricsFollowGroundTruth ==
  \A i \in 1..Len(results) :
    results[i].id # groundTruthId =>
      /\ results[i].metrics = NoMetrics <=> groundTruthId = 0
      /\ groundTruthId # 0 =>
           results[i].metrics =
             MetricsAgainst(results, groundTruthId, results[i].pagerank)

(***************************************************************************)
(* C34.  The managed algorithms and large graphs.                            *)
(***************************************************************************)
\* C34: while a graph of more than 10000 nodes is loaded the selected
\* algorithm is a WebAssembly one, and the task in flight, if it was
\* submitted for such a graph, has a WebAssembly algorithm.
C34_NoJsOnLargeGraph ==
  /\ currentGraph.loaded /\ IsLarge(currentGraph.nodes) =>
       selectedAlgorithm \in WasmAlgorithms
  /\ task.live /\ IsLarge(task.nodes) => task.algorithm \in WasmAlgorithms

(***************************************************************************)
(* C39.  Removed results.                                                    *)
(***************************************************************************)
\* C39: no result the user deleted or cleared is in the results list.
C39_RemovedNeverReappears == Ids(results) \cap removed = {}

=============================================================================
